---- MODULE Spec2Model ----
(***************************************************************************)
(* F1Live: the replay timeline derivation (RaceReplay.processRaceData,     *)
(* interpolateDriverPositions), the championship aggregation               *)
(* (OpenF1Service.getChampionshipStandings), and the loading and playback  *)
(* state of the RaceReplay component.                                      *)
(*                                                                         *)
(* Timestamps are integers: milliseconds since the epoch, which is what    *)
(* new Date(s).getTime() yields for an ISO string s.  A frame time         *)
(* startTime + i * timeStep is a double: it is held as the exact quotient, *)
(* a numerator over timeIntervals, together with the distance the double   *)
(* arithmetic of lines 185 and 213 leaves it from that quotient            *)
(* (currentTimeOf); new Date(x).toISOString() truncates x to whole         *)
(* milliseconds (ToISO).                                                   *)
(* A progress value p of a frame is held as the integer                    *)
(* p * ProgressScale(totalLaps): every constant of the progress formula    *)
(* (0.002, 0.8, 0.1, 0.01) is a whole number of 1/ProgressScale units.     *)
(***************************************************************************)
EXTENDS Integers, Sequences, FiniteSets, TLC

VARIABLES
    \* processRaceData: its arguments, the successive readings of the clock (now), its
    \* locals
    drivers, positions, laps, qualifyingPositions, raceControl, now,
    allLapCompletions, driverStates, i, chartData, pc,
    \* getChampionshipStandings: the season's sessions, what the API holds for each
    \* session, the loop over the race sessions, its maps, the sessions whose fetch
    \* failed, the value returned
    sessions, fetched, raceSessions, raceIndex, driverStats, constructorStats,
    skipped, standings,
    \* the positions.forEach of one race session
    posIndex, finalPositions,
    \* interpolateDriverPositions: its arguments (prevFrame: <<>> for null, else one
    \* frame; animationProgress: a number of 1/RatioSteps) and the value returned
    prevFrame, currentFrame, animationProgress, interpolated,
    \* the RaceReplay component: its session prop, its loading, error and chartData
    \* state, the calls of loadReplayData under way (each with the session it closed
    \* over and the await it has reached), and the sessions
    \* processRaceData was invoked for
    sessionProp, loading, error, chartDataState, loads, coreCalls,
    \* the RaceReplay component: the frame shown and whether the playback runs
    currentIndex, isPlaying

replayVars == <<drivers, positions, laps, qualifyingPositions, raceControl,
                allLapCompletions, driverStates, i, chartData>>

standingsVars == <<sessions, fetched, raceSessions, raceIndex, driverStats,
                   constructorStats, skipped, standings>>

finalPosVars == <<posIndex, finalPositions>>

interpVars == <<prevFrame, currentFrame, animationProgress, interpolated>>

loadVars == <<sessionProp, loading, error, chartDataState, loads, coreCalls>>

playVars == <<currentIndex, isPlaying>>

vars == <<replayVars, now, pc, standingsVars, finalPosVars, interpVars, loadVars, playVars>>

----------------------------------------------------------------------------
(* Generic helpers: JavaScript built-ins as the code uses them.            *)

\* null / undefined of a numeric field
Null == -1

Max(a, b) == IF a >= b THEN a ELSE b

Min(a, b) == IF a <= b THEN a ELSE b

Abs(x) == IF x >= 0 THEN x ELSE -x

\* a || b on numbers: 0 and undefined are falsy
OrElse(a, b) == IF a # 0 /\ a # Null THEN a ELSE b

\* Array.prototype.sort((a, b) => key(a) - key(b)): stable, ascending by key
StableSortByKey(s, keys) ==
    LET n == Len(s)
        rank(j) == Cardinality({k \in 1..n : keys[k] < keys[j]
                                    \/ (keys[k] = keys[j] /\ k < j)}) + 1
    IN  [r \in 1..n |-> s[CHOOSE j \in 1..n : rank(j) = r]]

\* Array.prototype.find / findIndex, hits[k] telling whether the callback accepts the
\* k-th element: the index of the first element accepted, 0 if none
FirstIndex(hits) ==
    IF \E k \in 1..Len(hits) : hits[k]
    THEN CHOOSE k \in 1..Len(hits) : hits[k] /\ \A j \in 1..(k - 1) : ~hits[j]
    ELSE 0

\* Math.max(...xs, floor)
MaxOf(xs, floor) ==
    LET S == {xs[k] : k \in 1..Len(xs)} \cup {floor}
    IN  CHOOSE m \in S : \A x \in S : x <= m

RECURSIVE Flatten(_)
Flatten(ss) == IF ss = <<>> THEN <<>> ELSE Head(ss) \o Flatten(Tail(ss))

----------------------------------------------------------------------------
(* processRaceData, RaceReplay.tsx 130-320                                 *)

PositionToleranceMs == 60000
FlagToleranceMs == 30000
MaxFrames == 100
MinLapRecords == 3

\* line 138
maxLapOf(ls) == MaxOf([k \in 1..Len(ls) |-> ls[k].lap_number], 1)

\* lines 143-144: the lap records of a driver, whatever their duration
IsFinishing(ls, driver) ==
    Len(SelectSeq(ls, LAMBDA lap : lap.driver_number = driver.driver_number)) > MinLapRecords

\* lines 142-145
finishingDriversOf(ds, ls) == SelectSeq(ds, LAMBDA driver : IsFinishing(ls, driver))

\* lines 170-173: the first sample of the driver within the tolerance, else the grid
\* position, else the driver number
LapPosition(ps, quali, driver, lap) ==
    LET k == FirstIndex([at \in 1..Len(ps) |->
                            /\ ps[at].driver_number = driver.driver_number
                            /\ Abs(ps[at].date - lap.date_start) < PositionToleranceMs])
    IN  OrElse(IF k = 0 THEN 0 ELSE ps[k].position,
               OrElse(quali[driver.driver_number], driver.driver_number))

\* lines 158-175: one driver's completions, by lap number, with the running time
DriverCompletions(ps, ls, quali, driver) ==
    LET mine == SelectSeq(ls, LAMBDA lap : /\ lap.driver_number = driver.driver_number
                                           /\ lap.lap_duration # Null)
        driverLaps == StableSortByKey(mine, [k \in 1..Len(mine) |-> mine[k].lap_number])
        RECURSIVE cumulativeTime(_)
        cumulativeTime(k) == IF k = 0 THEN 0
                             ELSE cumulativeTime(k - 1) + driverLaps[k].lap_duration
    IN  [k \in 1..Len(driverLaps) |->
            [timestamp       |-> driverLaps[k].date_start,
             driver_number   |-> driver.driver_number,
             lap_number      |-> driverLaps[k].lap_number,
             cumulative_time |-> cumulativeTime(k),
             position        |-> LapPosition(ps, quali, driver, driverLaps[k])]]

\* the completions left in per-driver order
SortCompletions_None(cs) == cs

\* line 179
SortCompletions(cs) == StableSortByKey(cs, [k \in 1..Len(cs) |-> cs[k].timestamp])

\* lines 157-179
allLapCompletionsOf(ds, ps, ls, quali) ==
    LET fin == finishingDriversOf(ds, ls)
    IN  SortCompletions(Flatten([k \in 1..Len(fin) |-> DriverCompletions(ps, ls, quali, fin[k])]))

\* two frames per lap without the cap
timeIntervalsOf_Uncapped(ls) == maxLapOf(ls) * 2

\* line 182
timeIntervalsOf(ls) == Min(maxLapOf(ls) * 2, MaxFrames)

\* lines 183-184: Date.now() when there is no completion; clock holds the successive
\* readings of the clock, the first taken at line 183 and the second at line 184
startTimeOf(cs, clock) == IF Len(cs) > 0 THEN cs[1].timestamp ELSE clock[1]

endTimeOf(cs, clock) == IF Len(cs) > 0 THEN cs[Len(cs)].timestamp ELSE clock[2] + 1000

\* the number of binary digits of a whole number x >= 0 (0 for 0): a double x >= 1
\* has the exponent BitLength(whole part of x) - 1
BitLength(x) == Cardinality({b \in 0..30 : 2^b <= x})

\* 2^k modulo n, for k < 80: 2^k is (2^20)^(k \div 20) * 2^(k % 20)
PowerOfTwoMod(k, n) ==
    LET a  == 2^20 % n
        q  == k \div 20
        hi == IF q = 0 THEN 1 % n
              ELSE IF q = 1 THEN a
              ELSE IF q = 2 THEN (a * a) % n
              ELSE (((a * a) % n) * a) % n
    IN  (hi * (2^(k % 20) % n)) % n

\* the exponent of the double nearest to d / n (floor of log2(d / n)), for d >= 1 and
\* n <= MaxFrames
QuotientExponent(d, n) ==
    IF d >= n THEN BitLength(d \div n) - 1
    ELSE -(CHOOSE k \in 1..7 : d * 2^k >= n /\ d * 2^(k - 1) < n)

\* s / 2^k rounded to the nearest whole number, a tie going to the even one: the
\* rounding of every operation on doubles.  s is at most half the number of frames.
RoundHalfEven(s, k) ==
    IF k = 0 THEN s
    ELSE IF k > 20 THEN 0
    ELSE LET q  == 2^k
             lo == Abs(s) \div q
             r  == Abs(s) % q
             v  == IF 2 * r < q THEN lo
                   ELSE IF 2 * r > q THEN lo + 1
                   ELSE IF lo % 2 = 0 THEN lo ELSE lo + 1
         IN  IF s >= 0 THEN v ELSE -v

\* line 213, in real numbers and times timeIntervals: startTime + i * timeStep is
\* CurrentTimeNum / timeIntervals when nothing is rounded
CurrentTimeNum(cs, ls, clock, idx) ==
    startTimeOf(cs, clock) * timeIntervalsOf(ls)
        + idx * (endTimeOf(cs, clock) - startTimeOf(cs, clock))

\* lines 185 and 213 in doubles (53 significant binary digits, each operation rounded
\* to the nearest double): how far startTime + idx * ((endTime - startTime) / n) ends
\* below the whole millisecond the exact value is, as a number of units of 2^(-bits).
\*   timeStep    = d / n - rho / (n * 2^f)   with 2^(-f) the spacing of doubles at d / n
\*   idx*timeStep = product - s1 / 2^g        after the rounding of the product
\*   currentTime = sum - ulps / 2^bits        after the rounding of the sum, which is
\*                                            exact when the sum is no larger than the
\*                                            product (a startTime before 1970)
\* When the exact value is not a whole millisecond the double lies within 2^(-10) ms of
\* it, hence on the same side of every whole millisecond and at the same side of every
\* tolerance, and the distance is left at 0.
CurrentTimeError(startTime, endTime, n, idx) ==
    LET d == endTime - startTime IN
    IF d = 0 \/ idx = 0 \/ (idx * d) % n # 0 THEN [ulps |-> 0, bits |-> 0]
    ELSE LET f       == 52 - QuotientExponent(d, n)
             r       == ((d % n) * PowerOfTwoMod(f, n)) % n
             rho     == IF 2 * r < n THEN r ELSE r - n
             product == (idx * d) \div n
             s       == (idx * rho) \div n
             g       == 53 - BitLength(IF s > 0 THEN product - 1 ELSE product)
             s1      == RoundHalfEven(s, f - g)
             sum     == startTime + product
             h       == 53 - BitLength(IF sum * s1 > 0 THEN Abs(sum) - 1 ELSE Abs(sum))
         IN  IF h >= g THEN [ulps |-> s1, bits |-> g]
             ELSE [ulps |-> RoundHalfEven(s1, g - h), bits |-> h]

\* line 213: currentTime = num / den - ulps / 2^bits
currentTimeOf(cs, ls, clock, idx) ==
    LET err == CurrentTimeError(startTimeOf(cs, clock), endTimeOf(cs, clock),
                                timeIntervalsOf(ls), idx)
    IN  [num  |-> CurrentTimeNum(cs, ls, clock, idx),
         den  |-> timeIntervalsOf(ls),
         ulps |-> err.ulps,
         bits |-> err.bits]

\* lines 220 and 282: t <= currentTime, t a whole number of milliseconds
AtOrBefore(t, currentTime) ==
    \/ t * currentTime.den < currentTime.num
    \/ t * currentTime.den = currentTime.num /\ currentTime.ulps <= 0

\* line 214: new Date(x).toISOString() keeps the whole milliseconds of x, dropping the
\* fraction towards zero (an instant before 1970 is rounded up)
ToISO(currentTime) ==
    LET whole == currentTime.num \div currentTime.den
    IN  IF currentTime.num % currentTime.den # 0
        THEN IF currentTime.num > 0 THEN whole ELSE whole + 1
        ELSE IF currentTime.ulps > 0 THEN (IF whole > 0 THEN whole - 1 ELSE whole)
        ELSE IF currentTime.ulps < 0 THEN (IF whole >= 0 THEN whole ELSE whole + 1)
        ELSE whole

\* line 246: Math.abs(flagTime - currentTime) < 30000.  The difference is a double too:
\* where flagTime is exactly the tolerance from the whole millisecond, a currentTime on
\* the near side of it is within the tolerance unless the difference rounds back to
\* 30000, the doubles below 30000 being 2^(-below) apart.
WithinFlagTolerance(flagTime, currentTime) ==
    LET dist  == Abs(flagTime * currentTime.den - currentTime.num)
        side  == (flagTime * currentTime.den - currentTime.num) * currentTime.ulps
        below == 53 - BitLength(FlagToleranceMs - 1)
    IN  IF dist # FlagToleranceMs * currentTime.den
        THEN dist < FlagToleranceMs * currentTime.den
        ELSE /\ side < 0
             /\ \/ currentTime.bits <= below
                \/ /\ currentTime.bits - below <= 7
                   /\ Abs(currentTime.ulps) > 2^(currentTime.bits - below - 1)

\* lines 201-210
InitialDriverStates(ds, ls, quali) ==
    LET fin == finishingDriversOf(ds, ls)
    IN  [dn \in {fin[k].driver_number : k \in 1..Len(fin)} |->
            [position          |-> OrElse(quali[dn], dn),
             lap_number        |-> 0,
             cumulative_time   |-> 0,
             pit_stops         |-> 0,
             is_in_pit         |-> FALSE,
             baseline_progress |-> 0]]

\* lines 228-232
IsPitLap(ls, completion) ==
    FirstIndex([at \in 1..Len(ls) |->
                   /\ ls[at].driver_number = completion.driver_number
                   /\ ls[at].lap_number = completion.lap_number
                   /\ ls[at].is_pit_out_lap]) # 0

\* every completion up to the frame's time applied, whatever its lap number
ApplyCompletion_AnyLapNumber(states, ls, completion, currentTime) ==
    LET dn == completion.driver_number IN
    IF /\ AtOrBefore(completion.timestamp, currentTime)
       /\ dn \in DOMAIN states
    THEN [states EXCEPT ![dn] =
            [@ EXCEPT !.lap_number      = completion.lap_number,
                      !.cumulative_time = completion.cumulative_time,
                      !.position        = completion.position,
                      !.pit_stops       = IF IsPitLap(ls, completion) THEN @ + 1 ELSE @,
                      !.is_in_pit       = IsPitLap(ls, completion)]]
    ELSE states

\* the completion of the lap the driver is already on applied again
ApplyCompletion_SameLapAgain(states, ls, completion, currentTime) ==
    LET dn == completion.driver_number IN
    IF /\ AtOrBefore(completion.timestamp, currentTime)
       /\ dn \in DOMAIN states
       /\ completion.lap_number >= states[dn].lap_number
    THEN [states EXCEPT ![dn] =
            [@ EXCEPT !.lap_number      = completion.lap_number,
                      !.cumulative_time = completion.cumulative_time,
                      !.position        = completion.position,
                      !.pit_stops       = IF IsPitLap(ls, completion) THEN @ + 1 ELSE @,
                      !.is_in_pit       = IsPitLap(ls, completion)]]
    ELSE states

\* every applied completion counted as a pit stop
ApplyCompletion_CountEveryLap(states, ls, completion, currentTime) ==
    LET dn == completion.driver_number IN
    IF /\ AtOrBefore(completion.timestamp, currentTime)
       /\ dn \in DOMAIN states
       /\ completion.lap_number > states[dn].lap_number
    THEN [states EXCEPT ![dn] =
            [@ EXCEPT !.lap_number      = completion.lap_number,
                      !.cumulative_time = completion.cumulative_time,
                      !.position        = completion.position,
                      !.pit_stops       = @ + 1,
                      !.is_in_pit       = IsPitLap(ls, completion)]]
    ELSE states

\* lines 219-240: one completion applied to the driver states
ApplyCompletion(states, ls, completion, currentTime) ==
    LET dn == completion.driver_number IN
    IF /\ AtOrBefore(completion.timestamp, currentTime)
       /\ dn \in DOMAIN states
       /\ completion.lap_number > states[dn].lap_number
    THEN [states EXCEPT ![dn] =
            [@ EXCEPT !.lap_number      = completion.lap_number,
                      !.cumulative_time = completion.cumulative_time,
                      !.position        = completion.position,
                      !.pit_stops       = IF IsPitLap(ls, completion) THEN @ + 1 ELSE @,
                      !.is_in_pit       = IsPitLap(ls, completion)]]
    ELSE states

\* lines 218-241: allLapCompletions.forEach
RECURSIVE ApplyCompletions(_, _, _, _, _)
ApplyCompletions(states, ls, cs, k, currentTime) ==
    IF k > Len(cs) THEN states
    ELSE ApplyCompletions(ApplyCompletion(states, ls, cs[k], currentTime),
                          ls, cs, k + 1, currentTime)

\* progress 1.0 in the units a frame holds it in
ProgressScale(maxLap) == 500 * maxLap * Min(maxLap * 2, MaxFrames)

\* the lap share plus position bias left uncapped
CapProgress_NoCap(p, maxLap) == p

\* line 266: Math.min(lapProgress + positionModifier, 1)
CapProgress(p, maxLap) == Min(p, ProgressScale(maxLap))

\* the progress of a driver with laps taken without the floor of the global progress
RawProgress_NoGlobalFloor(state, maxLap, idx) ==
    LET n == Min(maxLap * 2, MaxFrames) IN
    IF state.lap_number > 0
    THEN CapProgress(state.lap_number * 500 * n + (20 - state.position) * maxLap * n, maxLap)
    ELSE Max(idx * maxLap * 50, 5 * maxLap * n)

\* lines 259-273
RawProgress(state, maxLap, idx) ==
    LET n == Min(maxLap * 2, MaxFrames) IN
    IF state.lap_number > 0
    THEN LET lapProgress      == state.lap_number * 500 * n
             positionModifier == (20 - state.position) * maxLap * n
         IN  Max(CapProgress(lapProgress + positionModifier, maxLap), idx * maxLap * 400)
    ELSE Max(idx * maxLap * 50, 5 * maxLap * n)

\* the frame's own progress taken without the baseline
BaselineProgress_NoFloor(baseline, progress) == progress

\* line 276
BaselineProgress(baseline, progress) == Max(baseline, progress)

\* lines 280-285
LatestLap(ls, dn, currentTime) ==
    LET upToNow == SelectSeq(ls, LAMBDA lap : /\ lap.driver_number = dn
                                              /\ AtOrBefore(lap.date_start, currentTime))
        sorted  == StableSortByKey(upToNow, [k \in 1..Len(upToNow) |-> -upToNow[k].lap_number])
    IN  IF Len(sorted) = 0 THEN Null ELSE OrElse(sorted[1].lap_duration, Null)

\* the entries left in driver order
SortByPosition_None(cp) == cp

\* line 305
SortByPosition(cp) == StableSortByKey(cp, [k \in 1..Len(cp) |-> cp[k].position])

\* lines 259-277: the progress of the frame becomes the driver's new baseline
UpdateBaselines(states, maxLap, idx) ==
    [dn \in DOMAIN states |->
        [states[dn] EXCEPT !.baseline_progress =
            BaselineProgress(@, RawProgress(states[dn], maxLap, idx))]]

\* lines 254-305 (states: after UpdateBaselines)
ChartPositions(states, ds, ls, maxLap, idx, currentTime) ==
    LET fin == finishingDriversOf(ds, ls)
    IN  SortByPosition(
          [k \in 1..Len(fin) |->
            LET dn == fin[k].driver_number IN
            [driver_number      |-> dn,
             position           |-> states[dn].position,
             progress           |-> Max(states[dn].baseline_progress,
                                         5 * maxLap * Min(maxLap * 2, MaxFrames)),
             pit_stops          |-> states[dn].pit_stops,
             is_in_pit          |-> states[dn].is_in_pit,
             last_lap_time      |-> LatestLap(ls, dn, currentTime),
             current_lap_number |-> states[dn].lap_number]])

\* the events that carry a flag only, whatever their category
CurrentFlags_FlagFieldOnly(rcs, currentTime) ==
    LET hit == SelectSeq(rcs, LAMBDA rc :
                   /\ WithinFlagTolerance(rc.date, currentTime)
                   /\ rc.flag # "")
    IN  [k \in 1..Len(hit) |->
            [type          |-> hit[k].flag,
             message       |-> hit[k].message,
             driver_number |-> hit[k].driver_number]]

\* lines 244-251
CurrentFlags(rcs, currentTime) ==
    LET hit == SelectSeq(rcs, LAMBDA rc :
                   /\ WithinFlagTolerance(rc.date, currentTime)
                   /\ (rc.flag # "" \/ rc.category = "Flag"))
    IN  [k \in 1..Len(hit) |->
            [type          |-> IF hit[k].flag # "" THEN hit[k].flag ELSE "FLAG",
             message       |-> hit[k].message,
             driver_number |-> hit[k].driver_number]]

\* line 308
CurrentLap(states) ==
    LET S == {states[dn].lap_number : dn \in DOMAIN states} \cup {1}
    IN  CHOOSE m \in S : \A x \in S : x <= m

\* lines 212-317: the frame of index idx, and the driver states after it
FrameStates(states, ls, cs, clock, idx) ==
    UpdateBaselines(
        ApplyCompletions(states, ls, cs, 1, currentTimeOf(cs, ls, clock, idx)),
        maxLapOf(ls), idx)

Frame(states, ds, ls, rcs, cs, clock, idx) ==
    LET currentTime == currentTimeOf(cs, ls, clock, idx)
        after       == FrameStates(states, ls, cs, clock, idx)
    IN  [timestamp |-> ToISO(currentTime),
         lapNumber |-> CurrentLap(after),
         totalLaps |-> maxLapOf(ls),
         positions |-> ChartPositions(after, ds, ls, maxLapOf(ls), idx, currentTime),
         flags     |-> CurrentFlags(rcs, currentTime)]

\* lines 212-317: the loop from the iteration of index idx on, frames being the
\* chartData pushed so far and states the driverStates it left
RECURSIVE FrameLoop(_, _, _, _, _, _, _, _)
FrameLoop(states, frames, ds, ls, rcs, cs, clock, idx) ==
    IF idx > timeIntervalsOf(ls) THEN frames
    ELSE FrameLoop(FrameStates(states, ls, cs, clock, idx),
                   Append(frames, Frame(states, ds, ls, rcs, cs, clock, idx)),
                   ds, ls, rcs, cs, clock, idx + 1)

\* lines 130-320
processRaceData(ds, ps, ls, quali, rcs, clock) ==
    FrameLoop(InitialDriverStates(ds, ls, quali), <<>>, ds, ls, rcs,
              allLapCompletionsOf(ds, ps, ls, quali), clock, 0)

----------------------------------------------------------------------------
(* The fetched data processRaceData is run on.                             *)

MaxLapRecords == 6
MaxSamples == 2

ReplayDrivers == << [driver_number |-> 99], [driver_number |-> 4] >>

\* Driver 4: nA lap records one lap time apart (lap 2 a pit-out lap, lap nullA without
\* a duration); driver 99: nB records, offB ms behind.
LapFeed(nA, nullA, nB, offB) ==
    [k \in 1..nA |-> [driver_number   |-> 4,
                      lap_number      |-> k,
                      lap_duration    |-> IF k = nullA THEN Null ELSE 90,
                      date_start      |-> (k - 1) * 90000,
                      is_pit_out_lap  |-> (k = 2)]]
    \o
    [k \in 1..nB |-> [driver_number   |-> 99,
                      lap_number      |-> k,
                      lap_duration    |-> 91,
                      date_start      |-> (k - 1) * 90000 + offB,
                      is_pit_out_lap  |-> FALSE]]

\* A race of more than MaxFrames / 2 laps whose records are not in lap order: driver 4
\* has lap LongRaceLaps recorded before its lap 3, laps 2 and 3 being pit-out laps;
\* driver 99 has too few records to be shown.
LongRaceLaps == 60

LongRaceFeed ==
    << [driver_number |-> 4,  lap_number |-> 1, lap_duration |-> 90, date_start |-> 0,
        is_pit_out_lap |-> FALSE],
       [driver_number |-> 4,  lap_number |-> 2, lap_duration |-> 90, date_start |-> 90000,
        is_pit_out_lap |-> TRUE],
       [driver_number |-> 4,  lap_number |-> LongRaceLaps, lap_duration |-> 90,
        date_start |-> 180000, is_pit_out_lap |-> FALSE],
       [driver_number |-> 4,  lap_number |-> 3, lap_duration |-> 90, date_start |-> 270000,
        is_pit_out_lap |-> TRUE],
       [driver_number |-> 99, lap_number |-> 1, lap_duration |-> 91, date_start |-> 0,
        is_pit_out_lap |-> FALSE] >>

\* the last two feeds: a session with no lap recorded and the long race
LapFeeds ==
    {LapFeed(nA, nullA, nB, offB) :
        nA \in {MinLapRecords, MinLapRecords + 1}, nullA \in {0, 1},
        nB \in {MinLapRecords, MaxLapRecords}, offB \in {0, 45001}}
    \cup {<<>>, LongRaceFeed}

PositionSamples ==
    { [driver_number |-> 99, position |-> 1, date |-> 0],
      [driver_number |-> 4,  position |-> 2, date |-> 50000],
      [driver_number |-> 4,  position |-> 1, date |-> 100000],
      [driver_number |-> 99, position |-> 3, date |-> 200000] }

PositionFeeds == UNION {[1..n -> PositionSamples] : n \in 0..MaxSamples}

\* getQualifyingPositions' result: 0 where the grid has no entry for the driver
QualifyingGrids ==
    { (4 :> 1 @@ 99 :> 2), (4 :> 2 @@ 99 :> 1), (4 :> 1 @@ 99 :> 0) }

RaceControlFeed ==
    << [date |-> 0,      category |-> "Flag",      flag |-> "GREEN", message |-> "GREEN LIGHT", driver_number |-> 0],
       [date |-> 95000,  category |-> "Other",     flag |-> "",      message |-> "DRS ENABLED", driver_number |-> 0],
       [date |-> 120000, category |-> "Flag",      flag |-> "RED",   message |-> "RED FLAG",    driver_number |-> 0],
       [date |-> 185000, category |-> "Flag",      flag |-> "",      message |-> "FLAG",        driver_number |-> 4],
       [date |-> 275000, category |-> "SafetyCar", flag |-> "YELLOW", message |-> "SC",         driver_number |-> 0] >>

\* the two readings of Date.now() (lines 183 and 184): in the same millisecond, or the
\* second one a millisecond later
ClockReadings == {<<5000, 5000>>, <<5000, 5001>>, <<5007, 5007>>}

----------------------------------------------------------------------------
(* SpecReplay: processRaceData, one frame of its loop per step.            *)

StandingsIdle ==
    /\ sessions = <<>>
    /\ fetched = <<>>
    /\ raceSessions = <<>>
    /\ raceIndex = 0
    /\ driverStats = <<>>
    /\ constructorStats = <<>>
    /\ skipped = {}
    /\ standings = <<>>

FinalPosIdle ==
    /\ posIndex = 0
    /\ finalPositions = <<>>

InterpIdle ==
    /\ prevFrame = <<>>
    /\ currentFrame = <<>>
    /\ animationProgress = 0
    /\ interpolated = <<>>

LoadIdle ==
    /\ sessionProp = ""
    /\ loading = FALSE
    /\ error = ""
    /\ chartDataState = <<>>
    /\ loads = <<>>
    /\ coreCalls = {}

\* lines 40-41: useState(0), useState(false)
PlayIdle ==
    /\ currentIndex = 0
    /\ isPlaying = FALSE

ReplayInit ==
    /\ StandingsIdle
    /\ FinalPosIdle
    /\ InterpIdle
    /\ LoadIdle
    /\ PlayIdle
    /\ drivers = ReplayDrivers
    /\ laps \in LapFeeds
    /\ positions \in PositionFeeds
    /\ qualifyingPositions \in QualifyingGrids
    /\ raceControl = RaceControlFeed
    /\ allLapCompletions = allLapCompletionsOf(drivers, positions, laps, qualifyingPositions)
    /\ now \in (IF Len(allLapCompletions) > 0 THEN {<<5000, 5000>>} ELSE ClockReadings)
    /\ driverStates = InitialDriverStates(drivers, laps, qualifyingPositions)
    /\ i = 0
    /\ chartData = <<>>
    /\ pc = "frames"

\* lines 212-317: one iteration of the frame loop
BuildFrame ==
    /\ pc = "frames"
    /\ i <= timeIntervalsOf(laps)
    /\ driverStates' = FrameStates(driverStates, laps, allLapCompletions, now, i)
    /\ chartData' = Append(chartData,
                           Frame(driverStates, drivers, laps, raceControl, allLapCompletions, now, i))
    /\ i' = i + 1
    /\ UNCHANGED <<drivers, positions, laps, qualifyingPositions, raceControl, now,
                   allLapCompletions, pc>>
    /\ UNCHANGED <<standingsVars, finalPosVars, interpVars, loadVars, playVars>>

\* line 319
ReturnChartData ==
    /\ pc = "frames"
    /\ i > timeIntervalsOf(laps)
    /\ pc' = "done"
    /\ UNCHANGED <<drivers, positions, laps, qualifyingPositions, raceControl, now,
                   allLapCompletions, driverStates, i, chartData>>
    /\ UNCHANGED <<standingsVars, finalPosVars, interpVars, loadVars, playVars>>

ReplayNext == BuildFrame \/ ReturnChartData

SpecReplay == ReplayInit /\ [][ReplayNext]_vars

----------------------------------------------------------------------------
(* Properties of the frame sequence.                                       *)

\* the entry of driver dn in a frame's positions list (0: none)
EntryIndex(frame, dn) ==
    FirstIndex([at \in 1..Len(frame.positions) |-> frame.positions[at].driver_number = dn])

FrameDrivers(frame) == {frame.positions[k].driver_number : k \in 1..Len(frame.positions)}

CompletedLapCount(dn) ==
    Len(SelectSeq(laps, LAMBDA lap : lap.driver_number = dn /\ lap.lap_duration # Null))

DriverNumbers == {drivers[k].driver_number : k \in 1..Len(drivers)}

\* C1: for every driver and every two consecutive frames, the progress in the later
\* frame is at least the progress in the earlier one.
C1_MonotonicProgress ==
    \A f \in 1..(Len(chartData) - 1) :
        \A k \in 1..Len(chartData[f].positions) :
            LET e == chartData[f].positions[k]
                m == EntryIndex(chartData[f + 1], e.driver_number)
            IN  m # 0 /\ e.progress <= chartData[f + 1].positions[m].progress

\* C1 witness: a frame was built in which a driver's computed progress fell below the
\* progress of an earlier frame, and the baseline held it.
C1_Witness ==
    /\ i > 0
    /\ \E dn \in DOMAIN driverStates :
          /\ driverStates[dn].lap_number > 1
          /\ RawProgress(driverStates[dn], maxLapOf(laps), i - 1)
                < driverStates[dn].baseline_progress

\* C2: every driver entry of every frame has a progress in [0.01, 1.0].
C2_ProgressBounds ==
    \A f \in 1..Len(chartData) :
        \A k \in 1..Len(chartData[f].positions) :
            LET p == chartData[f].positions[k].progress
                t == chartData[f].totalLaps
            IN  /\ 100 * p >= ProgressScale(t)
                /\ p <= ProgressScale(t)

\* C2 witness: one entry sits at 1.0 because lap share plus position bias exceeded it,
\* and one entry sits at the 0.01 minimum.
C2_Witness ==
    /\ pc = "done"
    /\ \E dn \in DOMAIN driverStates :
          LET st == driverStates[dn]
              n  == timeIntervalsOf(laps)
          IN  /\ st.lap_number * 500 * n + (20 - st.position) * maxLapOf(laps) * n
                    > ProgressScale(maxLapOf(laps))
              /\ st.baseline_progress = ProgressScale(maxLapOf(laps))
    /\ \E k \in 1..Len(chartData[1].positions) :
          100 * chartData[1].positions[k].progress = ProgressScale(chartData[1].totalLaps)

\* C3 as claimed: in every frame the positions of the N drivers present are a
\* permutation of 1..N.
C3_PositionsArePermutation ==
    \A f \in 1..Len(chartData) :
        LET ps == chartData[f].positions
        IN  /\ {ps[k].position : k \in 1..Len(ps)} = 1..Len(ps)
            /\ \A k, m \in 1..Len(ps) : ps[k].position = ps[m].position => k = m

\* the positions a driver can carry: the grid position (else the driver number) it
\* starts on, or the position paired with one of its lap completions
CarriedPositions(dn) ==
    {OrElse(qualifyingPositions[dn], dn)}
        \cup {allLapCompletions[k].position :
                k \in {m \in 1..Len(allLapCompletions) : allLapCompletions[m].driver_number = dn}}

\* C3 amended: every frame lists its drivers by ascending position, and each driver's
\* position is its starting position or the position paired with one of its lap
\* completions; the values need be neither dense nor distinct.
C3_PositionsSortedAndCarried ==
    \A f \in 1..Len(chartData) :
        LET ps == chartData[f].positions
        IN  /\ \A k \in 1..(Len(ps) - 1) : ps[k].position <= ps[k + 1].position
            /\ \A k \in 1..Len(ps) : ps[k].position \in CarriedPositions(ps[k].driver_number)

\* C3 witness: a frame of two drivers, one frame where both carry the same position and
\* one frame whose positions leave a gap.
C3_Witness ==
    /\ \E f \in 1..Len(chartData) :
          LET ps == chartData[f].positions
          IN  Len(ps) = 2 /\ ps[1].position = ps[2].position
    /\ \E f \in 1..Len(chartData) :
          LET ps == chartData[f].positions
          IN  Len(ps) = 2 /\ ps[2].position > 2 /\ ps[1].position < ps[2].position

\* C5: a driver with exactly 3 laps of non-null duration is in no frame, and a driver
\* with 4 of them is in the frames.
C5_ThreeCompletedLapsExcluded ==
    \A dn \in DriverNumbers :
        \A f \in 1..Len(chartData) :
            /\ CompletedLapCount(dn) = 3 => dn \notin FrameDrivers(chartData[f])
            /\ CompletedLapCount(dn) = 4 => dn \in FrameDrivers(chartData[f])

CompletionTimes == {allLapCompletions[k].timestamp : k \in 1..Len(allLapCompletions)}

FrameGap(f) == chartData[f + 1].timestamp - chartData[f].timestamp

FirstAndLastFrameTimes ==
    (pc = "done" /\ CompletionTimes # {}) =>
        /\ \A t \in CompletionTimes : chartData[1].timestamp <= t
        /\ chartData[1].timestamp \in CompletionTimes
        /\ \A t \in CompletionTimes : t <= chartData[Len(chartData)].timestamp
        /\ chartData[Len(chartData)].timestamp \in CompletionTimes

\* C10 as claimed: frame timestamps never decrease, every two consecutive frames are the
\* same step apart, and the first and last are the earliest and latest completion.
C10_EvenlySpacedExactly ==
    /\ \A f \in 1..(Len(chartData) - 1) : FrameGap(f) >= 0
    /\ \A f, g \in 1..(Len(chartData) - 1) : FrameGap(f) = FrameGap(g)
    /\ FirstAndLastFrameTimes

\* C10 amended: frame timestamps never decrease, the gaps between consecutive frames
\* differ from one another by at most one millisecond (each frame time is truncated to
\* whole milliseconds), and the first and last are the earliest and latest completion.
C10_EvenlySpacedWithinOneMs ==
    /\ \A f \in 1..(Len(chartData) - 1) : FrameGap(f) >= 0
    /\ \A f, g \in 1..(Len(chartData) - 1) : Abs(FrameGap(f) - FrameGap(g)) <= 1
    /\ FirstAndLastFrameTimes

\* C10 witness: all frames are built from completions of both drivers, and two gaps
\* between consecutive frames differ.
C10_Witness ==
    /\ pc = "done"
    /\ Cardinality({allLapCompletions[k].driver_number : k \in 1..Len(allLapCompletions)}) = 2
    /\ \E f, g \in 1..(Len(chartData) - 1) : FrameGap(f) # FrameGap(g)

----------------------------------------------------------------------------
(* getChampionshipStandings, services/openf1.ts (src/unnamed/part_001      *)
(* 452-600).  A Map is a sequence of entries in insertion order.           *)

\* line 464
pointsSystem == <<25, 18, 15, 12, 10, 8, 6, 4, 2, 1>>

\* lines 458-461: session_name.toLowerCase() includes 'race' and not 'sprint'
IsRaceSession(session) ==
    /\ session.session_name \in {"Race", "Sprint Race"}
    /\ session.session_name \notin {"Sprint", "Sprint Race", "Sprint Qualifying"}

\* Map.get on finalPositions: the position stored for the driver, 0 if none
FinalPositionOf(fp, dn) ==
    LET k == FirstIndex([at \in 1..Len(fp) |-> fp[at].driver_number = dn])
    IN  IF k = 0 THEN 0 ELSE fp[k].position

\* Map.set on finalPositions
SetFinalPosition(fp, dn, position) ==
    LET k == FirstIndex([at \in 1..Len(fp) |-> fp[at].driver_number = dn])
    IN  IF k = 0 THEN Append(fp, [driver_number |-> dn, position |-> position])
        ELSE [fp EXCEPT ![k].position = position]

\* line 494: the date the sample is compared with is that of the first sample of the
\* driver, in list order, that has the stored position
ComparedDate(ps, dn, existing) ==
    LET k == FirstIndex([at \in 1..Len(ps) |-> ps[at].driver_number = dn /\ ps[at].position = existing])
    IN  IF k = 0 THEN Null ELSE ps[k].date

\* lines 493-496: one sample of positions.forEach
FinalPositionsStep(fp, ps, pos) ==
    LET existing == FinalPositionOf(fp, pos.driver_number)
        compared == ComparedDate(ps, pos.driver_number, existing)
    IN  IF existing = 0 \/ (compared # Null /\ pos.date > compared)
        THEN SetFinalPosition(fp, pos.driver_number, pos.position)
        ELSE fp

\* lines 491-497
RECURSIVE FinalPositionsFrom(_, _, _)
FinalPositionsFrom(fp, ps, k) ==
    IF k > Len(ps) THEN fp
    ELSE FinalPositionsFrom(FinalPositionsStep(fp, ps, ps[k]), ps, k + 1)

FinalPositionsOf(ps) == FinalPositionsFrom(<<>>, ps, 1)

\* an index one too far into the points table
PointsFor_OffByOne(position) ==
    IF position < Len(pointsSystem) THEN pointsSystem[position + 1] ELSE 0

\* line 504 (pointsSystem[position - 1], zero-based)
PointsFor(position) ==
    IF position <= Len(pointsSystem) THEN pointsSystem[position] ELSE 0

\* line 505
IsWin(position) == position = 1

\* line 506
IsPodium(position) == position <= 3

\* lines 509-521
AwardDriver(dstats, driver, position) ==
    LET dn    == driver.driver_number
        have  == FirstIndex([at \in 1..Len(dstats) |-> dstats[at].driver_number = dn])
        stats == IF have # 0 THEN dstats
                 ELSE Append(dstats, [driver_number |-> dn, driver |-> driver,
                                      points |-> 0, wins |-> 0, podiums |-> 0])
        k     == FirstIndex([at \in 1..Len(stats) |-> stats[at].driver_number = dn])
    IN  [stats EXCEPT ![k].points  = @ + PointsFor(position),
                      ![k].wins    = IF IsWin(position) THEN @ + 1 ELSE @,
                      ![k].podiums = IF IsPodium(position) THEN @ + 1 ELSE @]

\* Set.add
SetAdd(set, x) == IF \E k \in 1..Len(set) : set[k] = x THEN set ELSE Append(set, x)

\* the team credited with the points alone
AwardConstructor_PointsOnly(cstats, driver, position) ==
    LET team  == driver.team_name
        have  == FirstIndex([at \in 1..Len(cstats) |-> cstats[at].team_name = team])
        stats == IF have # 0 THEN cstats
                 ELSE Append(cstats, [team_name |-> team, points |-> 0, wins |-> 0,
                                      podiums |-> 0, drivers |-> <<>>])
        k     == FirstIndex([at \in 1..Len(stats) |-> stats[at].team_name = team])
    IN  [stats EXCEPT ![k].points  = @ + PointsFor(position),
                      ![k].drivers = SetAdd(@, driver.driver_number)]

\* lines 524-539
AwardConstructor(cstats, driver, position) ==
    LET team  == driver.team_name
        have  == FirstIndex([at \in 1..Len(cstats) |-> cstats[at].team_name = team])
        stats == IF have # 0 THEN cstats
                 ELSE Append(cstats, [team_name |-> team, points |-> 0, wins |-> 0,
                                      podiums |-> 0, drivers |-> <<>>])
        k     == FirstIndex([at \in 1..Len(stats) |-> stats[at].team_name = team])
    IN  [stats EXCEPT ![k].points  = @ + PointsFor(position),
                      ![k].drivers = SetAdd(@, driver.driver_number),
                      ![k].wins    = IF IsWin(position) THEN @ + 1 ELSE @,
                      ![k].podiums = IF IsPodium(position) THEN @ + 1 ELSE @]

\* lines 500-540: finalPositions.forEach from entry k on; a driver number the session's
\* driver list does not hold is passed over
RECURSIVE AwardFrom(_, _, _, _)
AwardFrom(stats, fp, ds, k) ==
    IF k > Len(fp) THEN stats
    ELSE LET d == FirstIndex([at \in 1..Len(ds) |-> ds[at].driver_number = fp[k].driver_number])
         IN  IF d = 0 THEN AwardFrom(stats, fp, ds, k + 1)
             ELSE AwardFrom([d |-> AwardDriver(stats.d, ds[d], fp[k].position),
                             c |-> AwardConstructor(stats.c, ds[d], fp[k].position)],
                            fp, ds, k + 1)

\* lines 485-540: one race session whose two fetches succeeded
AwardSession(stats, data) == AwardFrom(stats, FinalPositionsOf(data.positions), data.drivers, 1)

\* lines 559-563 and 583-587: compare(a, b) < 0
RankedBefore(a, b) ==
    \/ a.points > b.points
    \/ a.points = b.points /\ a.wins > b.wins
    \/ a.points = b.points /\ a.wins = b.wins /\ a.podiums > b.podiums

\* the rows left in the order of the Map
SortStandings_None(rows) == rows

\* lines 559-563 and 583-587: Array.prototype.sort with the standings comparator, stable
SortStandings(rows) ==
    LET n == Len(rows)
        rank(j) == Cardinality({k \in 1..n : RankedBefore(rows[k], rows[j])
                                    \/ (~RankedBefore(rows[j], rows[k]) /\ k < j)}) + 1
    IN  [r \in 1..n |-> rows[CHOOSE j \in 1..n : rank(j) = r]]

\* lines 547-564
DriverStandingsOf(dstats) ==
    LET rows   == [k \in 1..Len(dstats) |->
                      [driver_number |-> dstats[k].driver_number,
                       team_name     |-> dstats[k].driver.team_name,
                       points        |-> dstats[k].points,
                       wins          |-> dstats[k].wins,
                       podiums       |-> dstats[k].podiums]]
        sorted == SortStandings(rows)
    IN  [k \in 1..Len(sorted) |->
            [position      |-> k,
             driver_number |-> sorted[k].driver_number,
             team_name     |-> sorted[k].team_name,
             points        |-> sorted[k].points,
             wins          |-> sorted[k].wins,
             podiums       |-> sorted[k].podiums]]

\* lines 574-581: a listed driver carries the points of its driverStats entry
ConstructorDrivers(dstats, set) ==
    [k \in 1..Len(set) |->
        LET m == FirstIndex([at \in 1..Len(dstats) |-> dstats[at].driver_number = set[k]])
        IN  [driver_number |-> set[k],
             points        |-> IF m = 0 THEN 0 ELSE dstats[m].points]]

\* lines 566-588
ConstructorStandingsOf(dstats, cstats) ==
    LET rows   == [k \in 1..Len(cstats) |->
                      [team_name |-> cstats[k].team_name,
                       points    |-> cstats[k].points,
                       wins      |-> cstats[k].wins,
                       podiums   |-> cstats[k].podiums,
                       drivers   |-> ConstructorDrivers(dstats, cstats[k].drivers)]]
        sorted == SortStandings(rows)
    IN  [k \in 1..Len(sorted) |->
            [position  |-> k,
             team_name |-> sorted[k].team_name,
             points    |-> sorted[k].points,
             wins      |-> sorted[k].wins,
             podiums   |-> sorted[k].podiums,
             drivers   |-> sorted[k].drivers]]

\* lines 590-594
ChampionshipData(dstats, cstats, clock) ==
    [drivers      |-> DriverStandingsOf(dstats),
     constructors |-> ConstructorStandingsOf(dstats, cstats),
     last_updated |-> clock]

\* the loop left at the first session that fails
AfterSessionError_Abort(idx) == Len(raceSessions) + 1

\* lines 541-543: the catch inside the loop; the next session follows
AfterSessionError(idx) == idx + 1

\* lines 483-544 as a function of the fetched data: the race sessions in the order
\* given, those whose fetch failed passed over
RECURSIVE StatsOver(_, _, _, _)
StatsOver(stats, order, data, failedKeys) ==
    IF order = <<>> THEN stats
    ELSE StatsOver(IF Head(order).session_key \in failedKeys THEN stats
                   ELSE AwardSession(stats, data[Head(order).session_key]),
                   Tail(order), data, failedKeys)

----------------------------------------------------------------------------
(* The season getChampionshipStandings is run on.                          *)

MaxPosition == 11

SeasonSessions ==
    << [session_key |-> 1, session_name |-> "Race"],
       [session_key |-> 2, session_name |-> "Sprint"],
       [session_key |-> 3, session_name |-> "Race"] >>

SeasonDrivers ==
    << [driver_number |-> 1,  team_name |-> "Red Bull"],
       [driver_number |-> 44, team_name |-> "Mercedes"],
       [driver_number |-> 63, team_name |-> "Mercedes"] >>

\* The position samples of one race: driver 63 runs 1st early and ends 6th, driver 1
\* ends p-th, driver 44 q-th, driver 2 is not among the session's drivers; the records
\* of driver 1 come before or after those of driver 44.
RaceFeed(p, q, firstOne) ==
    << [driver_number |-> 63, position |-> 1, date |-> 10] >>
    \o (IF firstOne
        THEN << [driver_number |-> 1,  position |-> p, date |-> 20],
                [driver_number |-> 44, position |-> q, date |-> 20] >>
        ELSE << [driver_number |-> 44, position |-> q, date |-> 20],
                [driver_number |-> 1,  position |-> p, date |-> 20] >>)
    \o << [driver_number |-> 63, position |-> 6, date |-> 20],
          [driver_number |-> 2,  position |-> 4, date |-> 20] >>

RaceFeeds ==
    {RaceFeed(p, q, firstOne) : p \in 1..MaxPosition, q \in {1, 2, 3, 5}, firstOne \in BOOLEAN}

\* A race in which driver 1 runs 2nd, 1st and 2nd again and driver 44 leads at the end,
\* the samples in the order of their dates.
RecurringFeed ==
    << [driver_number |-> 1,  position |-> 2, date |-> 10],
       [driver_number |-> 1,  position |-> 1, date |-> 15],
       [driver_number |-> 1,  position |-> 2, date |-> 20],
       [driver_number |-> 44, position |-> 1, date |-> 20],
       [driver_number |-> 63, position |-> 3, date |-> 20] >>

SessionData == [drivers : {SeasonDrivers}, positions : RaceFeeds \cup {RecurringFeed}]

\* the driver list of a race after driver 63 has moved to the other team
SwappedDrivers ==
    << [driver_number |-> 1,  team_name |-> "Red Bull"],
       [driver_number |-> 44, team_name |-> "Mercedes"],
       [driver_number |-> 63, team_name |-> "Red Bull"] >>

SessionDataAfterSwap ==
    [drivers : {SwappedDrivers},
     positions : {RaceFeed(p, q, TRUE) : p \in {1, 6}, q \in {1, 2, 3, 5}}]

----------------------------------------------------------------------------
(* SpecStandings: getChampionshipStandings, one await per step.            *)

ReplayIdle ==
    /\ drivers = <<>>
    /\ positions = <<>>
    /\ laps = <<>>
    /\ qualifyingPositions = <<>>
    /\ raceControl = <<>>
    /\ allLapCompletions = <<>>
    /\ driverStates = <<>>
    /\ i = 0
    /\ chartData = <<>>

StandingsInit ==
    /\ ReplayIdle
    /\ FinalPosIdle
    /\ InterpIdle
    /\ LoadIdle
    /\ PlayIdle
    /\ now = <<5000, 5000>>
    /\ sessions = SeasonSessions
    /\ fetched \in {f \in [{1, 3} -> SessionData \cup SessionDataAfterSwap] : f[1] \in SessionData}
    /\ raceSessions = <<>>
    /\ raceIndex = 0
    /\ driverStats = <<>>
    /\ constructorStats = <<>>
    /\ skipped = {}
    /\ standings = <<>>
    /\ pc = "start"

\* lines 455-461: the session list arrives
GetSessions ==
    /\ pc = "start"
    /\ raceSessions' = SelectSeq(sessions, IsRaceSession)
    /\ raceIndex' = 1
    /\ pc' = "races"
    /\ UNCHANGED <<sessions, fetched, driverStats, constructorStats, skipped, standings>>
    /\ UNCHANGED <<replayVars, now, finalPosVars, interpVars, loadVars, playVars>>

\* the failure of the session list swallowed: empty standings are returned
GetSessionsFails_Swallowed ==
    /\ pc = "start"
    /\ standings' = ChampionshipData(<<>>, <<>>, now[1])
    /\ pc' = "done"
    /\ UNCHANGED <<sessions, fetched, raceSessions, raceIndex, driverStats,
                   constructorStats, skipped>>
    /\ UNCHANGED <<replayVars, now, finalPosVars, interpVars, loadVars, playVars>>

\* lines 455 and 596-599: the session list cannot be fetched; the error is rethrown
GetSessionsFails ==
    /\ pc = "start"
    /\ pc' = "rejected"
    /\ UNCHANGED <<standingsVars, replayVars, now, finalPosVars, interpVars, loadVars, playVars>>

\* lines 483-540: both fetches of the next race session succeed
ProcessRaceSession ==
    /\ pc = "races"
    /\ raceIndex <= Len(raceSessions)
    /\ LET after == AwardSession([d |-> driverStats, c |-> constructorStats],
                                 fetched[raceSessions[raceIndex].session_key])
       IN  /\ driverStats' = after.d
           /\ constructorStats' = after.c
    /\ raceIndex' = raceIndex + 1
    /\ UNCHANGED <<sessions, fetched, raceSessions, skipped, standings>>
    /\ UNCHANGED <<replayVars, now, pc, finalPosVars, interpVars, loadVars, playVars>>

\* lines 485-488 and 541-543: a fetch of the next race session fails, before anything
\* of the session is awarded
SkipRaceSession ==
    /\ pc = "races"
    /\ raceIndex <= Len(raceSessions)
    /\ skipped' = skipped \cup {raceSessions[raceIndex].session_key}
    /\ raceIndex' = AfterSessionError(raceIndex)
    /\ UNCHANGED <<sessions, fetched, raceSessions, driverStats, constructorStats, standings>>
    /\ UNCHANGED <<replayVars, now, pc, finalPosVars, interpVars, loadVars, playVars>>

\* lines 546-594
ReturnStandings ==
    /\ pc = "races"
    /\ raceIndex > Len(raceSessions)
    /\ standings' = ChampionshipData(driverStats, constructorStats, now[1])
    /\ pc' = "done"
    /\ UNCHANGED <<sessions, fetched, raceSessions, raceIndex, driverStats,
                   constructorStats, skipped>>
    /\ UNCHANGED <<replayVars, now, finalPosVars, interpVars, loadVars, playVars>>

StandingsNext ==
    \/ GetSessions
    \/ GetSessionsFails
    \/ ProcessRaceSession
    \/ SkipRaceSession
    \/ ReturnStandings

SpecStandings == StandingsInit /\ [][StandingsNext]_vars

----------------------------------------------------------------------------
(* SpecFinalPositions: the positions.forEach of one race session           *)
(* (part_001 491-497), one sample per step.                                *)

MaxRaceSamples == 3

RaceSamples == [driver_number : {1, 44}, position : {1, 2}, date : {10, 20, 30}]

FinalPositionsInit ==
    /\ StandingsIdle
    /\ InterpIdle
    /\ LoadIdle
    /\ PlayIdle
    /\ drivers = <<>>
    /\ laps = <<>>
    /\ qualifyingPositions = <<>>
    /\ raceControl = <<>>
    /\ allLapCompletions = <<>>
    /\ driverStates = <<>>
    /\ i = 0
    /\ chartData = <<>>
    /\ now = <<5000, 5000>>
    /\ positions \in UNION {[1..n -> RaceSamples] : n \in 0..MaxRaceSamples}
    /\ posIndex = 1
    /\ finalPositions = <<>>
    /\ pc = "samples"

\* lines 492-496: the next sample
TakeSample ==
    /\ pc = "samples"
    /\ posIndex <= Len(positions)
    /\ finalPositions' = FinalPositionsStep(finalPositions, positions, positions[posIndex])
    /\ posIndex' = posIndex + 1
    /\ UNCHANGED <<replayVars, now, pc, standingsVars, interpVars, loadVars, playVars>>

\* line 497
SamplesDone ==
    /\ pc = "samples"
    /\ posIndex > Len(positions)
    /\ pc' = "done"
    /\ UNCHANGED <<replayVars, now, standingsVars, finalPosVars, interpVars, loadVars, playVars>>

FinalPositionsNext == TakeSample \/ SamplesDone

SpecFinalPositions == FinalPositionsInit /\ [][FinalPositionsNext]_vars

----------------------------------------------------------------------------
(* Properties of the championship aggregation.                             *)

SampledDrivers == {positions[k].driver_number : k \in 1..Len(positions)}

\* the positions of the driver's samples that no sample of the driver is later than
LatestPositions(dn) ==
    {positions[k].position :
        k \in {m \in 1..Len(positions) :
                 /\ positions[m].driver_number = dn
                 /\ \A j \in 1..Len(positions) :
                       positions[j].driver_number = dn => positions[j].date <= positions[m].date}}

\* C4 as claimed: once all samples of the session are taken, the final position of each
\* driver is the position of its chronologically latest sample, whatever the order of
\* the samples and however often a position value recurs.
C4_FinalPositionIsLatestSample ==
    pc = "done" =>
        \A dn \in SampledDrivers : FinalPositionOf(finalPositions, dn) \in LatestPositions(dn)

\* the points table as the claim gives it
ClaimedPoints(p) ==
    CASE p = 1 -> 25 [] p = 2 -> 18 [] p = 3 -> 15 [] p = 4 -> 12 [] p = 5 -> 10
      [] p = 6 -> 8  [] p = 7 -> 6  [] p = 8 -> 4  [] p = 9 -> 2  [] p = 10 -> 1
      [] OTHER -> 0

\* a driver's entry of driverStats, zeros before its first result
StatOf(dstats, dn) ==
    LET k == FirstIndex([at \in 1..Len(dstats) |-> dstats[at].driver_number = dn])
    IN  IF k = 0 THEN [points |-> 0, wins |-> 0, podiums |-> 0]
        ELSE [points |-> dstats[k].points, wins |-> dstats[k].wins, podiums |-> dstats[k].podiums]

\* the drivers of a session's driver list with their final positions
Classified(key) ==
    LET fp == FinalPositionsOf(fetched[key].positions)
        ds == fetched[key].drivers
    IN  {fp[k] : k \in {m \in 1..Len(fp) :
                          \E d \in 1..Len(ds) : ds[d].driver_number = fp[m].driver_number}}

\* C6: a processed race session adds to each classified driver exactly the table's
\* points for its final position p (the p-th of 25,18,15,12,10,8,6,4,2,1 for p in 1..10,
\* 0 above 10), one win if p = 1 and one podium if p <= 3.
C6_PointsTableExact ==
    [][(pc = "races" /\ raceIndex' = raceIndex + 1 /\ skipped' = skipped) =>
          \A e \in Classified(raceSessions[raceIndex].session_key) :
              LET before == StatOf(driverStats, e.driver_number)
                  after  == StatOf(driverStats', e.driver_number)
              IN  /\ after.points = before.points + ClaimedPoints(e.position)
                  /\ after.wins = before.wins + (IF e.position = 1 THEN 1 ELSE 0)
                  /\ after.podiums = before.podiums + (IF e.position \in 1..3 THEN 1 ELSE 0)]_vars

\* C6 witness: both races are processed, driver 1 was 1st in one and 11th in the other,
\* and stands at 25 points, 1 win, 1 podium.
C6_Witness ==
    /\ pc = "done"
    /\ skipped = {}
    /\ [driver_number |-> 1, position |-> 1] \in Classified(1)
    /\ [driver_number |-> 1, position |-> 11] \in Classified(3)
    /\ StatOf(driverStats, 1) = [points |-> 25, wins |-> 1, podiums |-> 1]

\* every order of a sequence
Orders(seq) ==
    LET n == Len(seq)
    IN  {[k \in 1..n |-> seq[f[k]]] :
            f \in {g \in [1..n -> 1..n] : \A a, b \in 1..n : g[a] = g[b] => a = b}}

\* the fetched data with the position records of one session in another order
FetchedWith(key, ps) == [fetched EXCEPT ![key].positions = ps]

\* the driver standings had the race sessions been supplied in that order, with that
\* data
DriverStandingsIn(order, data) ==
    DriverStandingsOf(StatsOver([d |-> <<>>, c |-> <<>>], order, data, skipped).d)

Unranked(rows) ==
    {[driver_number |-> rows[k].driver_number, points |-> rows[k].points,
      wins |-> rows[k].wins, podiums |-> rows[k].podiums] : k \in 1..Len(rows)}

RankOf(rows, dn) == FirstIndex([at \in 1..Len(rows) |-> rows[at].driver_number = dn])

\* C7: the ranked driver list is the same whatever order the race sessions are supplied
\* in and whatever order the position records of a session are supplied in, and of two
\* drivers with equal points the one with more wins is ranked above the other.
C7_SameRankedListInAnyOrder ==
    pc = "done" =>
        /\ \A order \in Orders(raceSessions) :
              \A key \in DOMAIN fetched :
                  \A ps \in Orders(fetched[key].positions) :
                      DriverStandingsIn(order, FetchedWith(key, ps)) = standings.drivers
        /\ \A a, b \in 1..Len(standings.drivers) :
              (standings.drivers[a].points = standings.drivers[b].points
                  /\ standings.drivers[a].wins > standings.drivers[b].wins) => a < b

\* C7 with drivers equal in points, wins and podiums left free to swap places: the
\* sessions in the order given and the position records of one session in any order,
\* every driver has the same points, wins and podiums and two drivers that differ in
\* one of the three are ranked the same way round.
C7_SameRankedListUpToTies ==
    pc = "done" =>
        \A key \in DOMAIN fetched :
            \A ps \in Orders(fetched[key].positions) :
                LET other == DriverStandingsIn(raceSessions, FetchedWith(key, ps))
                IN  /\ Unranked(other) = Unranked(standings.drivers)
                    /\ \A a, b \in 1..Len(standings.drivers) :
                          LET ra == standings.drivers[a]
                              rb == standings.drivers[b]
                          IN  (a < b /\ <<ra.points, ra.wins, ra.podiums>>
                                            # <<rb.points, rb.wins, rb.podiums>>)
                                 => RankOf(other, ra.driver_number) < RankOf(other, rb.driver_number)

RaceKeys == {raceSessions[k].session_key : k \in 1..Len(raceSessions)}

\* the sum of f[key] over the keys
RECURSIVE SumOver(_, _)
SumOver(keys, f) ==
    IF keys = {} THEN 0
    ELSE LET key == CHOOSE x \in keys : TRUE
         IN  f[key] + SumOver(keys \ {key}, f)

\* what the driver earned in one race session
EarnedIn(key, dn) ==
    IF \E e \in Classified(key) : e.driver_number = dn
    THEN LET e == CHOOSE x \in Classified(key) : x.driver_number = dn
         IN  [points  |-> PointsFor(e.position),
              wins    |-> IF IsWin(e.position) THEN 1 ELSE 0,
              podiums |-> IF IsPodium(e.position) THEN 1 ELSE 0]
    ELSE [points |-> 0, wins |-> 0, podiums |-> 0]

\* C8: a race session whose fetch fails is skipped and the call does not reject; the
\* standings returned hold every driver classified in another race session, with the
\* full points, wins and podiums of all the other race sessions.
C8_FailedSessionSkipped ==
    /\ skipped # {} => pc # "rejected"
    /\ pc = "done" =>
          LET others == RaceKeys \ skipped
              rows   == standings.drivers
          IN  /\ {rows[k].driver_number : k \in 1..Len(rows)}
                    = UNION {{e.driver_number : e \in Classified(key)} : key \in others}
              /\ \A k \in 1..Len(rows) :
                    LET dn == rows[k].driver_number
                    IN  /\ rows[k].points = SumOver(others, [key \in others |-> EarnedIn(key, dn).points])
                        /\ rows[k].wins = SumOver(others, [key \in others |-> EarnedIn(key, dn).wins])
                        /\ rows[k].podiums = SumOver(others, [key \in others |-> EarnedIn(key, dn).podiums])

\* C8 witness: the fetch of the first race session failed, the second was processed,
\* and the standings returned list its three drivers.
C8_Witness ==
    /\ pc = "done"
    /\ skipped = {1}
    /\ Len(standings.drivers) = 3

----------------------------------------------------------------------------
(* interpolateDriverPositions, RaceReplay.tsx 324-349.  The ratio is       *)
(* progress / RatioSteps; a returned progress or interpolated_position is  *)
(* held times RatioSteps, so that it stays a whole number.                 *)

RatioSteps == 2

\* the linear interpolation taken from the current value back to the previous one
Lerp_FromCurrent(prev, cur, k) == cur * RatioSteps + (prev - cur) * k

\* lines 337 and 340: prev + (cur - prev) * progress, times RatioSteps
Lerp(prev, cur, k) == prev * RatioSteps + (cur - prev) * k

\* a frame entry as returned untouched: its progress in the units of the result
Returned(entry) == [entry EXCEPT !.progress = @ * RatioSteps]

\* lines 332-347
InterpolateDriver(prev, currentDriver, k) ==
    LET m == FirstIndex([at \in 1..Len(prev.positions) |->
                            prev.positions[at].driver_number = currentDriver.driver_number])
    IN  IF m = 0 THEN Returned(currentDriver)
        ELSE LET prevDriver == prev.positions[m]
             IN  [driver_number         |-> currentDriver.driver_number,
                  position              |-> currentDriver.position,
                  pit_stops             |-> currentDriver.pit_stops,
                  is_in_pit             |-> currentDriver.is_in_pit,
                  last_lap_time         |-> currentDriver.last_lap_time,
                  current_lap_number    |-> currentDriver.current_lap_number,
                  progress              |-> Lerp(prevDriver.progress, currentDriver.progress, k),
                  interpolated_position |-> Lerp(prevDriver.position, currentDriver.position, k),
                  position_change       |-> currentDriver.position - prevDriver.position]

\* lines 329-348
interpolateDriverPositions(prev, cur, k) ==
    IF prev = <<>> \/ k >= RatioSteps
    THEN [n \in 1..Len(cur.positions) |-> Returned(cur.positions[n])]
    ELSE [n \in 1..Len(cur.positions) |-> InterpolateDriver(prev[1], cur.positions[n], k)]

\* The frames interpolation is run on: driver 4 alone, or with driver 99 before or
\* after it, the entries in the order of their positions as processRaceData leaves
\* them (line 305).
FrameEntries4 ==
    {[driver_number |-> 4, position |-> pos, progress |-> prog, pit_stops |-> lap - 1,
      is_in_pit |-> (lap = 2), last_lap_time |-> 90, current_lap_number |-> lap] :
        pos \in {1, 2}, prog \in {4608, 8576}, lap \in {1, 2}}

FrameEntries99 ==
    {[driver_number |-> 99, position |-> pos, progress |-> 160, pit_stops |-> 0,
      is_in_pit |-> FALSE, last_lap_time |-> Null, current_lap_number |-> 0] :
        pos \in {1, 3}}

FramePositions ==
    {<<a>> : a \in FrameEntries4}
        \cup {p \in FrameEntries4 \X FrameEntries99 : p[1].position <= p[2].position}
        \cup {p \in FrameEntries99 \X FrameEntries4 : p[1].position <= p[2].position}

InterpFrames ==
    [timestamp : {0}, lapNumber : {1}, totalLaps : {4}, positions : FramePositions, flags : {<<>>}]

----------------------------------------------------------------------------
(* SpecInterpolate: one call of interpolateDriverPositions, with the sort  *)
(* of its result that follows the call.                                    *)

InterpolateInit ==
    /\ ReplayIdle
    /\ StandingsIdle
    /\ FinalPosIdle
    /\ LoadIdle
    /\ PlayIdle
    /\ now = <<5000, 5000>>
    /\ prevFrame \in {<<>>} \cup {<<f>> : f \in InterpFrames}
    /\ currentFrame \in InterpFrames
    /\ animationProgress \in 0..RatioSteps
    /\ interpolated = <<>>
    /\ pc = "call"

\* lines 328 and 692: the array returned is the frame's own positions array, which the
\* sort then reorders in place
ReturnsOwnArray(prev, k) == prev = <<>> \/ k >= RatioSteps

\* lines 685-692: the call, and the in-place sort of the array it returned
Interpolate ==
    /\ pc = "call"
    /\ interpolated' = SortByPosition(
                           interpolateDriverPositions(prevFrame, currentFrame, animationProgress))
    /\ currentFrame' = IF ReturnsOwnArray(prevFrame, animationProgress)
                       THEN [currentFrame EXCEPT !.positions = SortByPosition(@)]
                       ELSE currentFrame
    /\ pc' = "returned"
    /\ UNCHANGED <<prevFrame, animationProgress>>
    /\ UNCHANGED <<replayVars, now, standingsVars, finalPosVars, loadVars, playVars>>

InterpolateNext == Interpolate

SpecInterpolate == InterpolateInit /\ [][InterpolateNext]_vars

\* the fields of a frame entry, out of a returned entry
FrameFields(e) ==
    [driver_number |-> e.driver_number, position |-> e.position, progress |-> e.progress,
     pit_stops |-> e.pit_stops, is_in_pit |-> e.is_in_pit, last_lap_time |-> e.last_lap_time,
     current_lap_number |-> e.current_lap_number]

ReturnsCurrentAtOne ==
    (pc = "returned" /\ animationProgress = RatioSteps) =>
        interpolated = [n \in 1..Len(currentFrame.positions) |-> Returned(currentFrame.positions[n])]

\* C9 as claimed: with a previous frame and ratio 0 the result is the previous frame's
\* driver states, with ratio 1 it is the current frame's driver states exactly.
C9_RatioZeroReturnsPrevious ==
    /\ (pc = "returned" /\ animationProgress = 0 /\ prevFrame # <<>>) =>
          /\ Len(interpolated) = Len(prevFrame[1].positions)
          /\ \A n \in 1..Len(interpolated) :
                FrameFields(interpolated[n]) = Returned(prevFrame[1].positions[n])
    /\ ReturnsCurrentAtOne

\* C9 amended: with a previous frame and ratio 0, every driver of the current frame that
\* the previous frame also holds is returned with the previous frame's progress, an
\* interpolated position equal to its previous position, and all its other fields
\* (position, lap number, pit state, lap time) as in the current frame, in the current
\* frame's order; a driver the previous frame lacks is returned as it is in the current
\* frame.  With ratio 1 the result is the current frame's driver states exactly.
C9_RatioZeroReturnsPreviousProgress ==
    /\ (pc = "returned" /\ animationProgress = 0 /\ prevFrame # <<>>) =>
          /\ Len(interpolated) = Len(currentFrame.positions)
          /\ \A n \in 1..Len(interpolated) :
                LET cur == currentFrame.positions[n]
                    m   == EntryIndex(prevFrame[1], cur.driver_number)
                IN  IF m = 0 THEN interpolated[n] = Returned(cur)
                    ELSE /\ interpolated[n].progress = prevFrame[1].positions[m].progress * RatioSteps
                         /\ interpolated[n].interpolated_position
                               = prevFrame[1].positions[m].position * RatioSteps
                         /\ [FrameFields(interpolated[n]) EXCEPT !.progress = 0]
                               = [cur EXCEPT !.progress = 0]
    /\ ReturnsCurrentAtOne

\* C9 witness: a call with ratio 0 has returned, for a current frame of two drivers of
\* which the previous frame holds one, at another position, lap and progress.
C9_Witness ==
    /\ pc = "returned"
    /\ animationProgress = 0
    /\ prevFrame # <<>>
    /\ Len(currentFrame.positions) = 2
    /\ Len(prevFrame[1].positions) = 1
    /\ \E n \in 1..2 :
          LET cur == currentFrame.positions[n]
              m   == EntryIndex(prevFrame[1], cur.driver_number)
          IN  /\ m # 0
              /\ prevFrame[1].positions[m].position # cur.position
              /\ prevFrame[1].positions[m].progress < cur.progress
              /\ prevFrame[1].positions[m].current_lap_number < cur.current_lap_number

----------------------------------------------------------------------------
(* Properties of the ranked lists.                                         *)

\* the three sort keys of a standings row
SortKeys(row) == <<row.points, row.wins, row.podiums>>

\* a row with keys x goes before a row with keys y: points, then wins, then podiums,
\* each descending
KeysBefore(x, y) ==
    \/ x[1] > y[1]
    \/ x[1] = y[1] /\ x[2] > y[2]
    \/ x[1] = y[1] /\ x[2] = y[2] /\ x[3] > y[3]

\* the place of a driver in driverStats, of a team in constructorStats (Map order)
DriverInputIndex(dn) ==
    FirstIndex([at \in 1..Len(driverStats) |-> driverStats[at].driver_number = dn])

TeamInputIndex(team) ==
    FirstIndex([at \in 1..Len(constructorStats) |-> constructorStats[at].team_name = team])

\* C11: in the driver and the constructor standings returned, the position fields are
\* 1, 2, ..., N in list order, the list is ordered by points, then wins, then podiums,
\* each descending, and rows equal on all three keep the order of their input.
C11_DenseRankingInSortOrder ==
    (pc = "done" /\ standings # <<>>) =>
        /\ Len(standings.drivers) = Len(driverStats)
        /\ Len(standings.constructors) = Len(constructorStats)
        /\ \A k \in 1..Len(standings.drivers) : standings.drivers[k].position = k
        /\ \A k \in 1..Len(standings.constructors) : standings.constructors[k].position = k
        /\ \A k, l \in 1..Len(standings.drivers) :
              k < l =>
                LET a == standings.drivers[k]
                    b == standings.drivers[l]
                IN  /\ ~KeysBefore(SortKeys(b), SortKeys(a))
                    /\ SortKeys(a) = SortKeys(b) =>
                          DriverInputIndex(a.driver_number) < DriverInputIndex(b.driver_number)
        /\ \A k, l \in 1..Len(standings.constructors) :
              k < l =>
                LET a == standings.constructors[k]
                    b == standings.constructors[l]
                IN  /\ ~KeysBefore(SortKeys(b), SortKeys(a))
                    /\ SortKeys(a) = SortKeys(b) =>
                          TeamInputIndex(a.team_name) < TeamInputIndex(b.team_name)

\* C11 witness: standings were returned in which the sort moved the first driver of the
\* input down, two drivers are equal on all three keys, and two constructors are ranked.
C11_Witness ==
    /\ pc = "done"
    /\ standings # <<>>
    /\ Len(standings.drivers) = 3
    /\ Len(standings.constructors) = 2
    /\ standings.drivers[1].driver_number # driverStats[1].driver_number
    /\ \E k \in 1..2 : SortKeys(standings.drivers[k]) = SortKeys(standings.drivers[k + 1])

----------------------------------------------------------------------------
(* loadReplayData, the effect that runs it and the Retry button,           *)
(* RaceReplay.tsx 59-90, 395-397 and 647.  loads holds the calls of        *)
(* loadReplayData that are due or under way, oldest first.  A call is      *)
(* "scheduled" while the effect that makes it is due, "fetching" while it  *)
(* awaits the join of the four fetches (line 66) and "qualifying" while it *)
(* awaits getQualifyingPositions (line 78), which catches its own failures *)
(* and always returns a grid; it leaves loads when it returns.  Nothing    *)
(* cancels a call, and any number of them may be under way for the same    *)
(* session.                                                                *)

\* lines 67-70
FetchNames == {"drivers", "positions", "laps", "raceControl"}

\* how a fetch settles: with records, with none (drivers.length === 0, line 73), or
\* rejected (fetchData throws, part_001 lines 229-231)
Outcomes(f) == IF f = "drivers" THEN {"ok", "empty", "failed"} ELSE {"ok", "failed"}

\* Promise.all taken as resolved although the race-control fetch was rejected
AllSucceeded_ButRaceControl(fetches) ==
    \A f \in FetchNames \ {"raceControl"} : fetches[f] \in {"ok", "empty"}

\* line 66: Promise.all resolves when each of the four promises has resolved
AllSucceeded(fetches) == \A f \in FetchNames : fetches[f] \in {"ok", "empty"}

\* line 66: Promise.all rejects as soon as one promise is rejected
AnyFailed(fetches) == \E f \in FetchNames : fetches[f] = "failed"

\* line 66: the four promises at the moment the join settles: all of them resolved, or
\* one of them just rejected and each of the others resolved or still pending
JoinOutcomes ==
    {fetches \in [FetchNames -> {"ok", "empty", "failed", "pending"}] :
        /\ \A f \in FetchNames : fetches[f] \in Outcomes(f) \cup {"pending"}
        /\ \/ \A f \in FetchNames : fetches[f] \notin {"failed", "pending"}
           \/ Cardinality({f \in FetchNames : fetches[f] = "failed"}) = 1}

\* the calls of loadReplayData that may be due or under way at once
MaxCallsUnderWay == 2

\* the sessions the component is given, and what the API holds for each
ReplaySessions == {"A", "B"}

ReplayFeed(s) ==
    IF s = "A"
    THEN [drivers     |-> ReplayDrivers,
          positions   |-> <<>>,
          laps        |-> LapFeed(MinLapRecords + 1, 0, MinLapRecords, 0),
          grid        |-> (4 :> 1 @@ 99 :> 2),
          raceControl |-> RaceControlFeed]
    ELSE [drivers     |-> ReplayDrivers,
          positions   |-> << [driver_number |-> 99, position |-> 1, date |-> 0] >>,
          laps        |-> LapFeed(MinLapRecords + 1, 0, MaxLapRecords, 0),
          grid        |-> (4 :> 2 @@ 99 :> 1),
          raceControl |-> RaceControlFeed]

\* lines 78-81: processedData of a call for session s
ProcessedData(s, clock) ==
    LET d == ReplayFeed(s)
    IN  processRaceData(d.drivers, d.positions, d.laps, d.grid, d.raceControl, clock)

\* line 85: err.message
HttpErrorMessage == "HTTP error! status: 500"
NoDriverMessage == "No driver data available for this session"

\* a call of loadReplayData for session s, its four promises pending
NewCall(s, stage) ==
    [session |-> s, stage |-> stage, fetches |-> [f \in FetchNames |-> "pending"]]

\* the calls left when call c has returned
RemoveAt(calls, c) == SubSeq(calls, 1, c - 1) \o SubSeq(calls, c + 1, Len(calls))

\* lines 39-49 and 395-397: the component is mounted with session A, the state at its
\* useState defaults and the effect of the first render due
LoadInit ==
    /\ ReplayIdle
    /\ PlayIdle
    /\ StandingsIdle
    /\ FinalPosIdle
    /\ InterpIdle
    /\ now = <<5000, 5000>>
    /\ pc = "mounted"
    /\ sessionProp = "A"
    /\ loading = FALSE
    /\ error = ""
    /\ chartDataState = <<>>
    /\ loads = << NewCall("A", "scheduled") >>
    /\ coreCalls = {}

LoadUnchanged ==
    UNCHANGED <<replayVars, now, pc, standingsVars, finalPosVars, interpVars, playVars>>

\* the parent passes another session object, for another session or for the same one
\* again: loadReplayData gets a new identity (line 90) and the effect of lines 395-397
\* is due.  React runs the effects of a render before it renders again.
SessionChanges(s) ==
    /\ pc # "unattended"
    /\ Len(loads) < MaxCallsUnderWay
    /\ \A c \in DOMAIN loads : loads[c].stage # "scheduled"
    /\ sessionProp' = s
    /\ loads' = Append(loads, NewCall(s, "scheduled"))
    /\ UNCHANGED <<loading, error, chartDataState, coreCalls>>
    /\ LoadUnchanged

\* lines 395-397, 60-71: the effect calls loadReplayData for the session of its render
RunEffect(c) ==
    /\ loads[c].stage = "scheduled"
    /\ loading' = TRUE
    /\ error' = ""
    /\ loads' = [loads EXCEPT ![c].stage = "fetching"]
    /\ UNCHANGED <<sessionProp, chartDataState, coreCalls>>
    /\ LoadUnchanged

\* lines 643-653, 60-71: the Retry button, rendered while error is set, calls the
\* loadReplayData of the current render
Retry ==
    /\ pc # "unattended"
    /\ error # ""
    /\ Len(loads) < MaxCallsUnderWay
    /\ loading' = TRUE
    /\ error' = ""
    /\ loads' = Append(loads, NewCall(sessionProp, "fetching"))
    /\ UNCHANGED <<sessionProp, chartDataState, coreCalls>>
    /\ LoadUnchanged

\* lines 66, 84-89: Promise.all rejected; the catch sets the message of fetchData's
\* error and the finally ends the loading
JoinRejects(c, fetches) ==
    /\ loads[c].stage = "fetching"
    /\ AnyFailed(fetches)
    /\ error' = HttpErrorMessage
    /\ loading' = FALSE
    /\ loads' = RemoveAt(loads, c)
    /\ UNCHANGED <<sessionProp, chartDataState, coreCalls>>
    /\ LoadUnchanged

\* lines 66, 73-75, 84-89: the join resolved with no driver
NoDriverData(c, fetches) ==
    /\ loads[c].stage = "fetching"
    /\ AllSucceeded(fetches)
    /\ fetches["drivers"] = "empty"
    /\ error' = NoDriverMessage
    /\ loading' = FALSE
    /\ loads' = RemoveAt(loads, c)
    /\ UNCHANGED <<sessionProp, chartDataState, coreCalls>>
    /\ LoadUnchanged

\* lines 66, 73, 78: the join resolved; the call awaits getQualifyingPositions
AwaitQualifying(c, fetches) ==
    /\ loads[c].stage = "fetching"
    /\ AllSucceeded(fetches)
    /\ fetches["drivers"] # "empty"
    /\ loads' = [loads EXCEPT ![c].stage = "qualifying", ![c].fetches = fetches]
    /\ UNCHANGED <<sessionProp, loading, error, chartDataState, coreCalls>>
    /\ LoadUnchanged

\* lines 78-82, 87-89: processRaceData is invoked and its result stored
QualifyingReturns(c) ==
    /\ loads[c].stage = "qualifying"
    /\ coreCalls' = coreCalls \cup {loads[c].session}
    /\ chartDataState' = ProcessedData(loads[c].session, now)
    /\ loading' = FALSE
    /\ loads' = RemoveAt(loads, c)
    /\ UNCHANGED <<sessionProp, error>>
    /\ LoadUnchanged

LoadNext ==
    \/ \E s \in ReplaySessions : SessionChanges(s)
    \/ \E c \in DOMAIN loads : RunEffect(c)
    \/ Retry
    \/ \E c \in DOMAIN loads : \E fetches \in JoinOutcomes : JoinRejects(c, fetches)
    \/ \E c \in DOMAIN loads : \E fetches \in JoinOutcomes : NoDriverData(c, fetches)
    \/ \E c \in DOMAIN loads : \E fetches \in JoinOutcomes : AwaitQualifying(c, fetches)
    \/ \E c \in DOMAIN loads : QualifyingReturns(c)

SpecLoad == LoadInit /\ [][LoadNext]_vars

\* no call of loadReplayData is due or under way
NoLoadUnderWay == loads = <<>>

\* C12: the session was switched from A to B while A's load was in flight; once both
\* loads have completed (each having stored its result), the chartData held is the one
\* derived from B.
C12_SupersededLoadDiscarded ==
    (/\ sessionProp = "B"
     /\ NoLoadUnderWay
     /\ coreCalls = ReplaySessions)
        => chartDataState = ProcessedData("B", now)

\* C16: processRaceData is invoked by a call only when its four fetches have all
\* succeeded: a call goes on to getQualifyingPositions with four fetches that succeeded,
\* and chartData is stored and the core invoked only by the return of such a call.  A
\* call that ends on its join, a fetch having failed, invokes nothing in that step,
\* leaves chartData as it was, sets the error and puts loading back to false.
C16_AllOrNothingJoin ==
    /\ [](\A c \in DOMAIN loads :
            loads[c].stage = "qualifying" => \A f \in FetchNames : loads[c].fetches[f] = "ok")
    /\ [][(coreCalls' # coreCalls \/ chartDataState' # chartDataState) =>
            \E c \in DOMAIN loads :
                /\ loads[c].stage = "qualifying"
                /\ loads' = RemoveAt(loads, c)
                /\ chartDataState' = ProcessedData(loads[c].session, now)]_vars
    /\ [][\A c \in DOMAIN loads :
            (loads[c].stage = "fetching" /\ loads' = RemoveAt(loads, c))
                => /\ chartDataState' = chartDataState
                   /\ coreCalls' = coreCalls
                   /\ error' # ""
                   /\ loading' = FALSE]_vars

\* C16 witness: the call for session A has stored its frames, the session was changed
\* to B and the call for B has ended on a failed fetch: the error of fetchData is set,
\* loading is false, the core was invoked for A only and the chartData held is still
\* that of A.
C16_Witness ==
    /\ sessionProp = "B"
    /\ NoLoadUnderWay
    /\ coreCalls = {"A"}
    /\ chartDataState = ProcessedData("A", now)
    /\ error = HttpErrorMessage
    /\ loading = FALSE

----------------------------------------------------------------------------
(* Degenerate inputs of processRaceData, and its dependence on the clock.  *)

\* the baseline progress 0.01 (line 272) in the units of a frame with the given totals
BaselineOnly(frame) == 5 * frame.totalLaps * Min(frame.totalLaps * 2, MaxFrames)

\* C13: when no laps are recorded for the session, processRaceData returns a single
\* frame, whose drivers carry the baseline progress only.
C13_NoLapsSingleFrame ==
    (pc = "done" /\ laps = <<>>) =>
        /\ Len(chartData) = 1
        /\ \A k \in 1..Len(chartData[1].positions) :
              chartData[1].positions[k].progress = BaselineOnly(chartData[1])

\* C14: when no driver has more than 3 laps, processRaceData returns an empty frame
\* list.
C14_NoEligibleDriverNoFrame ==
    (pc = "done" /\ finishingDriversOf(drivers, laps) = <<>>) =>
        chartData = <<>>

\* C15: processRaceData run again on the same inputs at another wall-clock time yields
\* the same frame sequence, timestamps included.
C15_SameFramesAtAnyClock ==
    pc = "done" =>
        \A clock \in ClockReadings :
            chartData = processRaceData(drivers, positions, laps, qualifyingPositions,
                                        raceControl, clock)

----------------------------------------------------------------------------
(* The drivers listed with a constructor.                                  *)

\* the team the driver list of a race session gives the driver
TeamIn(key, dn) ==
    LET ds == fetched[key].drivers
    IN  ds[FirstIndex([at \in 1..Len(ds) |-> ds[at].driver_number = dn])].team_name

\* the drivers classified for the team in some processed race session
ClassifiedFor(team) ==
    {e.driver_number :
        e \in UNION {{x \in Classified(key) : TeamIn(key, x.driver_number) = team} :
                        key \in RaceKeys \ skipped}}

\* the points the driver scored for the team over the processed race sessions
ContributedTo(team, dn) ==
    LET keys == RaceKeys \ skipped
    IN  SumOver(keys,
                [key \in keys |->
                    IF \E e \in Classified(key) :
                           e.driver_number = dn /\ TeamIn(key, dn) = team
                    THEN ClaimedPoints((CHOOSE e \in Classified(key) : e.driver_number = dn).position)
                    ELSE 0])

\* C17: for every constructor standing, the listed drivers are exactly the drivers
\* classified for that team in some processed race, each listed driver's points are the
\* points it contributed to that team, and so the listed points sum to the constructor's
\* points, also when a driver raced for two teams.
C17_ListedDriversSumToTeamPoints ==
    (pc = "done" /\ standings # <<>>) =>
        \A c \in 1..Len(standings.constructors) :
            LET row    == standings.constructors[c]
                listed == row.drivers
                idx    == 1..Len(listed)
            IN  /\ {listed[k].driver_number : k \in idx} = ClassifiedFor(row.team_name)
                /\ \A k \in idx :
                      listed[k].points = ContributedTo(row.team_name, listed[k].driver_number)
                /\ SumOver(idx, [k \in idx |-> listed[k].points]) = row.points

----------------------------------------------------------------------------
(* The position paired with a lap completion.                              *)

\* the samples of the driver within the tolerance of the instant
SamplesNear(dn, instant) ==
    {k \in 1..Len(positions) :
        /\ positions[k].driver_number = dn
        /\ Abs(positions[k].date - instant) < PositionToleranceMs}

\* of those, the positions of the samples no other is nearer than
NearestPositions(dn, instant) ==
    {positions[k].position :
        k \in {m \in SamplesNear(dn, instant) :
                 \A j \in SamplesNear(dn, instant) :
                     Abs(positions[m].date - instant) <= Abs(positions[j].date - instant)}}

\* C18: the position paired with a lap completion is that of the driver's sample nearest
\* in time to the lap timestamp when a sample lies within 60 seconds; when none does it
\* is the driver's grid position, and the driver number only if the grid has no entry
\* for the driver.
C18_NearestSampleOrGrid ==
    \A k \in 1..Len(allLapCompletions) :
        LET c  == allLapCompletions[k]
            dn == c.driver_number
        IN  IF SamplesNear(dn, c.timestamp) # {}
            THEN c.position \in NearestPositions(dn, c.timestamp)
            ELSE c.position = (IF qualifyingPositions[dn] \notin {0, Null}
                               THEN qualifyingPositions[dn] ELSE dn)

----------------------------------------------------------------------------
(* The floor of the global progress.                                       *)

\* 0.8 * i / frameCount and 0.1 * i / frameCount for the frame of index i, in the
\* units of its progress values
GlobalFloor(frame, idx) == 400 * idx * frame.totalLaps

LaplessFloor(frame, idx) == Max(50 * idx * frame.totalLaps, BaselineOnly(frame))

\* C19 as claimed: in the frame of index i every driver's progress is at least
\* 0.8 * i / frameCount.
C19_EveryDriverAboveGlobalFloor ==
    \A f \in 1..Len(chartData) :
        \A k \in 1..Len(chartData[f].positions) :
            chartData[f].positions[k].progress >= GlobalFloor(chartData[f], f - 1)

\* C19 amended: in the frame of index i, every driver that has completed a lap has a
\* progress of at least 0.8 * i / frameCount; a driver that has completed none has a
\* progress of at least max(0.1 * i / frameCount, 0.01), which can be below that floor.
C19_DriversWithLapsAboveGlobalFloor ==
    \A f \in 1..Len(chartData) :
        \A k \in 1..Len(chartData[f].positions) :
            LET e == chartData[f].positions[k]
            IN  IF e.current_lap_number > 0
                THEN e.progress >= GlobalFloor(chartData[f], f - 1)
                ELSE e.progress >= LaplessFloor(chartData[f], f - 1)

\* C19 witness: a frame after the first in which one driver with laps stands exactly on
\* the floor 0.8 * i / frameCount, and a later or earlier frame after the first in which
\* a driver without a completed lap is below it.
C19_Witness ==
    /\ \E f \in 2..Len(chartData) : \E k \in 1..Len(chartData[f].positions) :
          /\ chartData[f].positions[k].current_lap_number > 0
          /\ chartData[f].positions[k].progress = GlobalFloor(chartData[f], f - 1)
          /\ chartData[f - 1].positions[EntryIndex(chartData[f - 1],
                 chartData[f].positions[k].driver_number)].progress
                < chartData[f].positions[k].progress
    /\ \E f \in 2..Len(chartData) : \E k \in 1..Len(chartData[f].positions) :
          /\ chartData[f].positions[k].current_lap_number = 0
          /\ chartData[f].positions[k].progress < GlobalFloor(chartData[f], f - 1)

----------------------------------------------------------------------------
(* The in-pit mark.                                                        *)

\* the lap number the driver had in the frame before the f-th (0 before the first)
LapBefore(f, dn) ==
    IF f = 1 \/ EntryIndex(chartData[f - 1], dn) = 0 THEN 0
    ELSE chartData[f - 1].positions[EntryIndex(chartData[f - 1], dn)].current_lap_number

\* C20: a driver is marked in-pit only in the frame in which a pit-out lap completion
\* is applied to it: in a frame where no lap completion of the driver was newly applied,
\* its is_in_pit is false.
C20_InPitOnlyWhenNewlyApplied ==
    \A f \in 1..Len(chartData) :
        \A k \in 1..Len(chartData[f].positions) :
            LET e == chartData[f].positions[k]
            IN  e.is_in_pit => e.current_lap_number > LapBefore(f, e.driver_number)

----------------------------------------------------------------------------
(* The pit-stop count.                                                     *)

\* the lap completions of the driver with a timestamp up to the time the f-th frame
\* carries
EventsUpTo(dn, f) ==
    {k \in 1..Len(allLapCompletions) :
        /\ allLapCompletions[k].driver_number = dn
        /\ allLapCompletions[k].timestamp <= chartData[f].timestamp}

\* of those, the ones applied: a completion is applied when its lap number is above
\* that of every completion of the driver before it in time order
AppliedEvents(dn, f) ==
    {k \in EventsUpTo(dn, f) :
        \A j \in EventsUpTo(dn, f) :
            j < k => allLapCompletions[j].lap_number < allLapCompletions[k].lap_number}

\* the lap of the completion is flagged as a pit-out lap
FlaggedPitOut(completion) ==
    \E m \in 1..Len(laps) : /\ laps[m].driver_number = completion.driver_number
                            /\ laps[m].lap_number = completion.lap_number
                            /\ laps[m].is_pit_out_lap

AppliedPitOuts(dn, f) == {k \in AppliedEvents(dn, f) : FlaggedPitOut(allLapCompletions[k])}

\* C21: each lap completion applied to a driver adds exactly one to the pit-stop count
\* if its lap is flagged as a pit-out lap and nothing otherwise: in every frame the
\* driver's pit_stops is the number of pit-out laps among the completions applied up to
\* the frame's time.
C21_PitStopsCountAppliedPitOuts ==
    \A f \in 1..Len(chartData) :
        \A k \in 1..Len(chartData[f].positions) :
            LET e == chartData[f].positions[k]
            IN  e.pit_stops = Cardinality(AppliedPitOuts(e.driver_number, f))

\* C21 witness: a frame in which a driver has four completions behind it, three of them
\* applied and one of these a pit-out lap, and holds a pit-stop count of one.
C21_Witness ==
    \E f \in 1..Len(chartData) :
        \E k \in 1..Len(chartData[f].positions) :
            LET e == chartData[f].positions[k]
            IN  /\ e.pit_stops = 1
                /\ Cardinality(EventsUpTo(e.driver_number, f)) = 4
                /\ Cardinality(AppliedEvents(e.driver_number, f)) = 3
                /\ Cardinality(AppliedPitOuts(e.driver_number, f)) = 1

----------------------------------------------------------------------------
(* The flags of a frame.                                                   *)

\* the time of the f-th frame: the currentTime of line 213 its flags were chosen at
FrameTime(f) == currentTimeOf(allLapCompletions, laps, now, f - 1)

\* how far a race-control event lies after (before, if negative) the whole millisecond
\* a frame of time currentTime is computed for, times the number of intervals
FlagOffsetNum(k, currentTime) == raceControl[k].date * currentTime.den - currentTime.num

\* the event is less than 30 seconds from the frame time, in real numbers: at a
\* distance of 30 seconds from the whole millisecond it is so when the frame time lies
\* off the millisecond on the side of the event
WithinThirtySeconds(k, currentTime) ==
    \/ Abs(FlagOffsetNum(k, currentTime)) < FlagToleranceMs * currentTime.den
    \/ /\ Abs(FlagOffsetNum(k, currentTime)) = FlagToleranceMs * currentTime.den
       /\ FlagOffsetNum(k, currentTime) * currentTime.ulps < 0

\* the event carries a flag or is of category "Flag"
IsFlagEvent(k) == raceControl[k].flag # "" \/ raceControl[k].category = "Flag"

\* the race-control events the f-th frame is to show
FlagsDue(f) ==
    LET currentTime == FrameTime(f)
    IN  {k \in 1..Len(raceControl) : WithinThirtySeconds(k, currentTime) /\ IsFlagEvent(k)}

\* C22: the flags of a frame are exactly the race-control events less than 30 seconds
\* from the frame's time that carry a flag or have the category "Flag", in the order of
\* the feed, each with its message, driver number and flag (or "FLAG" when the event
\* has none): no other event appears and none of these is left out.
C22_FlagsWithinToleranceExactly ==
    \A f \in 1..Len(chartData) :
        LET due == FlagsDue(f)
        IN  /\ Len(chartData[f].flags) = Cardinality(due)
            /\ \A k \in due :
                  LET shown == chartData[f].flags[Cardinality({m \in due : m <= k})]
                  IN  /\ shown.message = raceControl[k].message
                      /\ shown.driver_number = raceControl[k].driver_number
                      /\ shown.type = (IF raceControl[k].flag # "" THEN raceControl[k].flag
                                       ELSE "FLAG")

\* C22 witness: one frame shows a flag while an event without a flag and of another
\* category lies within 30 seconds of it; one frame shows the event that has the
\* category "Flag" and no flag; and one frame shows nothing of a flag event that lies
\* exactly 30 seconds from it.
C22_Witness ==
    /\ \E f \in 1..Len(chartData) : \E k \in 1..Len(raceControl) :
          /\ chartData[f].flags # <<>>
          /\ ~IsFlagEvent(k)
          /\ WithinThirtySeconds(k, FrameTime(f))
    /\ \E f \in 1..Len(chartData) : \E j \in 1..Len(chartData[f].flags) :
          chartData[f].flags[j].type = "FLAG"
    /\ \E f \in 1..Len(chartData) : \E k \in 1..Len(raceControl) :
          /\ IsFlagEvent(k)
          /\ Abs(FlagOffsetNum(k, FrameTime(f))) = FlagToleranceMs * FrameTime(f).den
          /\ \A j \in 1..Len(chartData[f].flags) :
                chartData[f].flags[j].message # raceControl[k].message

----------------------------------------------------------------------------
(* The size of the frame grid.                                             *)

\* the highest lap number of the input, 1 at least
HighestLap ==
    LET numbers == {laps[k].lap_number : k \in 1..Len(laps)} \cup {1}
    IN  CHOOSE m \in numbers : \A x \in numbers : x <= m

\* min(2 * totalLaps, 100)
FrameCount == IF 2 * HighestLap <= MaxFrames THEN 2 * HighestLap ELSE MaxFrames

\* C23: the grid has frameCount = min(2 * totalLaps, 100) intervals, totalLaps being the
\* highest lap number of the input and at least 1; one frame is emitted per index
\* 0..frameCount, so the list returned has exactly frameCount + 1 frames and never more
\* than 101, and the k-th frame built is that of index k - 1.
C23_FrameCountCapped ==
    /\ Len(chartData) = i
    /\ Len(chartData) <= FrameCount + 1
    /\ Len(chartData) <= MaxFrames + 1
    /\ \A f \in 1..Len(chartData) : chartData[f].totalLaps = HighestLap
    /\ pc = "done" => Len(chartData) = FrameCount + 1

\* C23 witness: a race of more than 50 laps has been processed to the end and the list
\* returned has 101 frames.
C23_Witness ==
    /\ pc = "done"
    /\ 2 * HighestLap > MaxFrames
    /\ Len(chartData) = MaxFrames + 1

----------------------------------------------------------------------------
(* The drivers of a frame.                                                 *)

\* the eligible drivers of the session: those with more than three completed laps, a
\* completed lap being a lap record with a duration
EligibleDrivers == {dn \in DriverNumbers : CompletedLapCount(dn) > MinLapRecords}

\* C24: the driver list of every frame holds each eligible driver exactly once and no
\* other driver, so that all the frames of one output carry the same set of drivers.
C24_FramesHoldEligibleDriversOnce ==
    \A f \in 1..Len(chartData) :
        /\ FrameDrivers(chartData[f]) = EligibleDrivers
        /\ Len(chartData[f].positions) = Cardinality(EligibleDrivers)

----------------------------------------------------------------------------
(* The lap a driver is on.                                                 *)

\* the lap numbers of the driver's lap records with a duration that start up to the
\* time the f-th frame carries
CompletedLapsUpTo(dn, f) ==
    {laps[k].lap_number : k \in {m \in 1..Len(laps) :
        /\ laps[m].driver_number = dn
        /\ laps[m].lap_duration # Null
        /\ laps[m].date_start <= chartData[f].timestamp}}

GreatestLapUpTo(dn, f) ==
    LET numbers == CompletedLapsUpTo(dn, f) \cup {0}
    IN  CHOOSE m \in numbers : \A x \in numbers : x <= m

\* C26: in the frame at time t a driver's current_lap_number is the greatest lap number
\* among the driver's completed-lap events with a timestamp up to t, and 0 when there is
\* none, also when the timestamps are not in the order of the lap numbers; so the
\* current lap number of a driver never decreases from one frame to the next.
C26_CurrentLapIsGreatestCompleted ==
    \A f \in 1..Len(chartData) :
        \A k \in 1..Len(chartData[f].positions) :
            LET e == chartData[f].positions[k]
            IN  /\ e.current_lap_number = GreatestLapUpTo(e.driver_number, f)
                /\ e.current_lap_number >= LapBefore(f, e.driver_number)

\* C26 witness: in the last frame of the long race the latest completed-lap event of the
\* driver in time is that of lap 3, recorded after lap LongRaceLaps, and the driver is
\* on lap LongRaceLaps as in the frame before.
C26_Witness ==
    /\ pc = "done"
    /\ \E k \in 1..Len(chartData[Len(chartData)].positions) :
          LET e  == chartData[Len(chartData)].positions[k]
              cs == allLapCompletions
          IN  /\ cs[Len(cs)].driver_number = e.driver_number
              /\ cs[Len(cs)].lap_number = 3
              /\ cs[Len(cs)].timestamp = chartData[Len(chartData)].timestamp
              /\ e.current_lap_number = LongRaceLaps
              /\ LapBefore(Len(chartData), e.driver_number) = LongRaceLaps

----------------------------------------------------------------------------
(* The pit-stop count from frame to frame.                                 *)

\* the pit-stop count the driver had in the frame before the f-th (0 before the first)
PitStopsBefore(f, dn) ==
    IF f = 1 \/ EntryIndex(chartData[f - 1], dn) = 0 THEN 0
    ELSE chartData[f - 1].positions[EntryIndex(chartData[f - 1], dn)].pit_stops

\* the driver's distinct completed laps flagged as pit-out laps
PitOutLaps(dn) ==
    {laps[k].lap_number : k \in {m \in 1..Len(laps) :
        /\ laps[m].driver_number = dn
        /\ laps[m].lap_duration # Null
        /\ laps[m].is_pit_out_lap}}

\* C27: a driver's pit_stops never decreases from one frame to the next, and in every
\* frame it is at most the number of the driver's distinct completed laps flagged as
\* pit-out laps: no lap is counted twice although every frame scans all the lap
\* completions again.
C27_PitStopsMonotoneAndBounded ==
    \A f \in 1..Len(chartData) :
        \A k \in 1..Len(chartData[f].positions) :
            LET e == chartData[f].positions[k]
            IN  /\ e.pit_stops >= PitStopsBefore(f, e.driver_number)
                /\ e.pit_stops <= Cardinality(PitOutLaps(e.driver_number))

\* C27 witness: a driver whose only pit-out lap was applied in an earlier frame stays on
\* that lap in the next frame, which scans the completion again, and still has a
\* pit-stop count of one.
C27_Witness ==
    \E f \in 2..Len(chartData) :
        \E k \in 1..Len(chartData[f].positions) :
            LET e == chartData[f].positions[k]
            IN  /\ Cardinality(PitOutLaps(e.driver_number)) = 1
                /\ e.current_lap_number \in PitOutLaps(e.driver_number)
                /\ LapBefore(f, e.driver_number) = e.current_lap_number
                /\ PitStopsBefore(f, e.driver_number) = 1
                /\ e.pit_stops = 1

----------------------------------------------------------------------------
(* Drivers' totals against constructors' totals.                           *)

\* the points, wins and podiums of a list of rows added up
TotalsOf(rows) ==
    LET idx == 1..Len(rows)
    IN  [points  |-> SumOver(idx, [k \in idx |-> rows[k].points]),
         wins    |-> SumOver(idx, [k \in idx |-> rows[k].wins]),
         podiums |-> SumOver(idx, [k \in idx |-> rows[k].podiums])]

\* C28: in the standings returned the points of all driver standings add up to the
\* points of all constructor standings, and so do the wins and the podiums; the same
\* holds of the running statistics after any number of processed or skipped race
\* sessions.
C28_DriverTotalsEqualConstructorTotals ==
    /\ TotalsOf(driverStats) = TotalsOf(constructorStats)
    /\ pc = "done" =>
          /\ TotalsOf(standings.drivers) = TotalsOf(standings.constructors)
          /\ TotalsOf(standings.drivers) = TotalsOf(driverStats)

\* C28 witness: standings returned after one race session was skipped and one was
\* processed, with points, a win and podiums awarded, two teams listed, and a
\* classified car whose driver the session does not list left out of both sides.
C28_Witness ==
    /\ pc = "done"
    /\ Cardinality(skipped) = 1
    /\ Len(standings.constructors) = 2
    /\ TotalsOf(standings.drivers).points > 0
    /\ TotalsOf(standings.drivers).wins = 1
    /\ TotalsOf(standings.constructors).podiums >= 2

----------------------------------------------------------------------------
(* The failure of the session list.                                        *)

\* C25: when the season's session list cannot be fetched, getChampionshipStandings
\* rejects and returns no standings, nothing of a race session having been looked at;
\* standings are returned only after the list has arrived and every race session has
\* been processed or skipped, and a call in which a race session failed is not
\* rejected for it.
C25_SessionListFailureRejects ==
    /\ pc = "rejected" =>
          /\ standings = <<>>
          /\ raceSessions = <<>>
          /\ raceIndex = 0
          /\ driverStats = <<>>
          /\ constructorStats = <<>>
    /\ pc = "done" =>
          /\ raceIndex = Len(raceSessions) + 1
          /\ raceSessions = SelectSeq(sessions, IsRaceSession)
          /\ standings # <<>>
    /\ skipped # {} => pc \in {"races", "done"}

\* C25 witness: the call has been rejected on the failure of the session list.
C25_Witness ==
    /\ pc = "rejected"
    /\ sessions # <<>>
    /\ standings = <<>>

----------------------------------------------------------------------------
(* SpecPlayback: the playback state of the RaceReplay component,           *)
(* RaceReplay.tsx 351-438, together with the calls of loadReplayData       *)
(* (59-90, 395-397, 647) that replace chartData under it.                  *)
(* animationProgress is a number of 1/RatioSteps.  pc is "interactive"     *)
(* while the user is at the controls and "unattended" once no further      *)
(* input occurs: the session is then left alone and Retry is not pressed,  *)
(* but the calls under way go on.                                          *)

\* lines 39-49 and 395-397: the component is mounted with session A, the state at its
\* useState defaults and the effect of the first render due
PlaybackInit ==
    /\ ReplayIdle
    /\ StandingsIdle
    /\ FinalPosIdle
    /\ now = <<5000, 5000>>
    /\ pc = "interactive"
    /\ prevFrame = <<>>
    /\ currentFrame = <<>>
    /\ interpolated = <<>>
    /\ animationProgress = 0
    /\ currentIndex = 0
    /\ isPlaying = FALSE
    /\ sessionProp = "A"
    /\ loading = FALSE
    /\ error = ""
    /\ chartDataState = <<>>
    /\ loads = << NewCall("A", "scheduled") >>
    /\ coreCalls = {}

PlaybackUnchanged ==
    UNCHANGED <<replayVars, now, standingsVars, finalPosVars,
                prevFrame, currentFrame, interpolated>>

\* line 655: the playback controls are rendered
ControlsShown == ~loading /\ error = "" /\ Len(chartDataState) > 0

\* lines 364-370: the updater of setCurrentIndex
AdvanceIndex(idx, len) ==
    IF idx >= len - 1 THEN [index |-> idx, playing |-> FALSE]
    ELSE [index |-> idx + 1, playing |-> TRUE]

\* lines 352-381: one animation frame while playing; increment is deltaTime / 1000 * 0.5
\* * playbackSpeed, here in 1/RatioSteps
Tick(increment) ==
    /\ isPlaying
    /\ Len(chartDataState) > 0
    /\ IF animationProgress >= RatioSteps
       THEN /\ currentIndex' = AdvanceIndex(currentIndex, Len(chartDataState)).index
            /\ isPlaying' = AdvanceIndex(currentIndex, Len(chartDataState)).playing
            /\ animationProgress' = 0
       ELSE /\ animationProgress' = Min(animationProgress + increment, RatioSteps)
            /\ UNCHANGED playVars
    /\ UNCHANGED <<loadVars, pc>>
    /\ PlaybackUnchanged

\* lines 399-401
handlePlayPause ==
    /\ pc = "interactive"
    /\ ControlsShown
    /\ isPlaying' = ~isPlaying
    /\ UNCHANGED <<currentIndex, animationProgress, loadVars, pc>>
    /\ PlaybackUnchanged

\* lines 403-406
handleReset ==
    /\ pc = "interactive"
    /\ ControlsShown
    /\ isPlaying' = FALSE
    /\ currentIndex' = 0
    /\ UNCHANGED <<animationProgress, loadVars, pc>>
    /\ PlaybackUnchanged

\* lines 424-429, the slider running from 0 to chartData.length - 1 (lines 892-893)
handleSliderChange(newIndex) ==
    /\ pc = "interactive"
    /\ ControlsShown
    /\ newIndex \in 0..(Len(chartDataState) - 1)
    /\ currentIndex' = newIndex
    /\ animationProgress' = 0
    /\ isPlaying' = FALSE
    /\ UNCHANGED <<loadVars, pc>>
    /\ PlaybackUnchanged

\* lines 602-626: the laps the quick-navigation buttons ask for; totalLaps is that of
\* chartData[currentIndex], undefined (here 0) when there is no such frame
SkipTargets ==
    LET total == IF currentIndex + 1 \in 1..Len(chartDataState)
                 THEN chartDataState[currentIndex + 1].totalLaps ELSE 0
    IN  {1, OrElse(total \div 4, 1), OrElse(total \div 2, 1),
         OrElse((total * 3) \div 4, 1), OrElse(total, 1)}

\* line 432: chartData.findIndex(frame => frame.lapNumber >= lapNumber), -1 if none
TargetFrame(lapNumber) ==
    FirstIndex([at \in 1..Len(chartDataState) |->
                   chartDataState[at].lapNumber >= lapNumber]) - 1

\* lines 431-438
skipToLap(lapNumber) ==
    /\ pc = "interactive"
    /\ TargetFrame(lapNumber) # -1
    /\ currentIndex' = TargetFrame(lapNumber)
    /\ animationProgress' = 0
    /\ isPlaying' = FALSE
    /\ UNCHANGED <<loadVars, pc>>
    /\ PlaybackUnchanged

\* the user leaves the controls and the session alone from here on
UserLeaves ==
    /\ pc = "interactive"
    /\ pc' = "unattended"
    /\ UNCHANGED <<animationProgress, loadVars, playVars>>
    /\ PlaybackUnchanged

PlaybackNext ==
    \/ LoadNext
    \/ \E increment \in 1..RatioSteps : Tick(increment)
    \/ handlePlayPause
    \/ handleReset
    \/ \E newIndex \in 0..(Len(chartDataState) - 1) : handleSliderChange(newIndex)
    \/ \E lapNumber \in SkipTargets : skipToLap(lapNumber)
    \/ UserLeaves

SpecPlayback == PlaybackInit /\ [][PlaybackNext]_vars

\* the browser keeps delivering animation frames while the playback runs
SpecPlaybackFair ==
    PlaybackInit /\ [][PlaybackNext]_vars /\ WF_vars(\E increment \in 1..RatioSteps : Tick(increment))

\* C29: after any sequence of playback ticks, play/pause, reset, slider scrub,
\* skip-to-lap and reloads caused by a session change, currentIndex is a valid index
\* into chartData whenever chartData is non-empty.
C29_CurrentIndexValid ==
    Len(chartDataState) > 0 => currentIndex \in 0..(Len(chartDataState) - 1)

----------------------------------------------------------------------------
(* The end of an unattended playback.                                      *)

\* C30: once the playback runs on a non-empty frame list and no further user input
\* occurs, currentIndex advances one frame at a time, eventually reaches the last frame,
\* and isPlaying then becomes false; the playback never runs forever and never advances
\* past the last frame.
C30_PlaybackReachesLastFrame ==
    /\ [][currentIndex' # currentIndex /\ pc = "unattended" =>
            /\ currentIndex' = currentIndex + 1
            /\ currentIndex' <= Len(chartDataState) - 1]_vars
    /\ (pc = "unattended" /\ isPlaying /\ Len(chartDataState) > 0 /\ NoLoadUnderWay)
          ~> (~isPlaying /\ currentIndex = Len(chartDataState) - 1)

====
